---- MODULE Spec2Model ----
(***************************************************************************)
(* State-machine model of the rating and comment services of 0sc/library.  *)
(* Both services keep their data in a bolt database: a tree of nested      *)
(* buckets.  A resource type is a top-level bucket, a resource instance a  *)
(* bucket nested in it; the instance bucket holds the rating record under  *)
(* the key "ratings" and the comments in a nested bucket "comments".       *)
(*                                                                         *)
(* Byte strings are TLA+ strings.  JSON documents are sequences of         *)
(* <<member name, member text>> pairs; a number's text is the sequence of  *)
(* its decimal characters.  A bucket is a function from keys to entries,   *)
(* an entry being <<"B", bucket>> or <<"V", bytes>>.  A Go pointer is a    *)
(* sequence of length 0 (nil) or 1.  An error is a tuple of strings, the   *)
(* empty tuple being the nil error.                                        *)
(***************************************************************************)
EXTENDS Integers, Sequences, FiniteSets, TLC

\* Largest value a stored counter takes in the model (guard of the writes).
MaxCount == 2
\* Largest magnitude of a negative counter in a delta.
MaxDelta == 2
\* Width of the machine integer the model gives Go's int (scaled down).
IntBits == 8
\* Number of PUT requests served concurrently.
NumProcs == 2
\* Largest magnitude of a counter in the calculations on ratings alone.
MaxCalc == 13

VARIABLES
    db,     \* the committed root bucket of the bolt database
    op,     \* the last operation or request that completed, with its inputs
    res,    \* what that operation returned, or the response to that request
    pc,     \* concurrent requests: where each one is
    req,    \* concurrent requests: the request each process serves
    writer, \* concurrent requests: the process holding bolt's writer lock
    txroot, \* concurrent requests: the root each open read-write tx works on
    resp,   \* concurrent requests: the response each process wrote
    guid,   \* betterguid: how many identifiers the generator has handed out
    created,\* the identifiers commentable.add has returned, per instance
    upd     \* the comment update (PATCH) in flight between its two transactions

vars == <<db, op, res, pc, req, writer, txroot, resp, guid, created, upd>>

(***************************************************************************)
(* Values                                                                  *)
(***************************************************************************)
NoErr == <<>>
NoData == <<>>
NilPtr == <<>>
Ptr(v) == <<v>>
Deref(p) == p[1]
EmptyBucket == <<>>

ErrBucketNameRequired == <<"bucket name required">>
ErrKeyRequired == <<"key required">>
ErrIncompatibleValue == <<"incompatible value">>
ErrSyntax == <<"json: syntax error">>

rateableTypeNotFoundFmt == "rateable type, %s, not found"
rateableNotFoundFmt == "%s not found with key %s"
ratingsKey == "ratings"

ratingIsInvalid == "rating could not be parsed"
ratingFetchErr == "could not load ratings"
ratingSaveErr == "rating could not be saved"

StatusOK == 200
StatusBadRequest == 400
StatusNotFound == 404
StatusNotAcceptable == 406
StatusInternalServerError == 500

\* fmt.Errorf(format, args...)
Errorf1(format, a) == <<format, a>>
Errorf2(format, a, b) == <<format, a, b>>
Errorf3(format, a, b, c) == <<format, a, b, c>>

(***************************************************************************)
(* Machine integers                                                        *)
(***************************************************************************)
RECURSIVE Pow2(_)
Pow2(n) == IF n = 0 THEN 1 ELSE 2 * Pow2(n - 1)

MaxInt == Pow2(IntBits - 1) - 1
MinInt == -Pow2(IntBits - 1)

IntModulus == Pow2(IntBits)

\* Two's complement wrap-around of Go's int arithmetic.
Wrap(n) == ((n - MinInt) % IntModulus) + MinInt

(***************************************************************************)
(* bolt buckets                                                            *)
(***************************************************************************)
IsBucketEntry(e) == e[1] = "B"

\* Bucket.Bucket(name) # nil
HasBucket(b, name) == name \in DOMAIN b /\ IsBucketEntry(b[name])

\* Bucket.Bucket(name), for a name HasBucket holds of
SubBucket(b, name) == b[name][2]

\* the parent bucket with the nested bucket `name` replaced by `child`
WithBucket(b, name, child) ==
    [k \in DOMAIN b \cup {name} |-> IF k = name THEN <<"B", child>> ELSE b[k]]

\* Bucket.Get(key): nil for a missing key and for a nested bucket
Get(b, key) ==
    IF key \in DOMAIN b /\ ~IsBucketEntry(b[key]) THEN b[key][2] ELSE NoData

\* Bucket.Put(key, value)
Put(b, key, value) ==
    IF key = "" THEN [b |-> b, err |-> ErrKeyRequired]
    ELSE IF HasBucket(b, key) THEN [b |-> b, err |-> ErrIncompatibleValue]
    ELSE [b |-> [k \in DOMAIN b \cup {key} |->
                    IF k = key THEN <<"V", value>> ELSE b[k]],
          err |-> NoErr]

\* Bucket.CreateBucketIfNotExists that takes the empty name for a name
CreateBucketAnyName(b, name) ==
    IF HasBucket(b, name) THEN [b |-> b, err |-> NoErr]
    ELSE IF name \in DOMAIN b THEN [b |-> b, err |-> ErrIncompatibleValue]
    ELSE [b |-> WithBucket(b, name, EmptyBucket), err |-> NoErr]

\* Bucket.CreateBucketIfNotExists(name)
CreateBucketIfNotExists(b, name) ==
    IF name = "" THEN [b |-> b, err |-> ErrBucketNameRequired]
    ELSE IF HasBucket(b, name) THEN [b |-> b, err |-> NoErr]
    ELSE IF name \in DOMAIN b THEN [b |-> b, err |-> ErrIncompatibleValue]
    ELSE [b |-> WithBucket(b, name, EmptyBucket), err |-> NoErr]

\* Bucket.Delete(key)
Delete(b, key) ==
    IF key \notin DOMAIN b THEN [b |-> b, err |-> NoErr]
    ELSE IF IsBucketEntry(b[key]) THEN [b |-> b, err |-> ErrIncompatibleValue]
    ELSE [b |-> [k \in DOMAIN b \ {key} |-> b[k]], err |-> NoErr]

\* DB.Update that commits whatever the function returned
dbUpdateAlways(d, out) == out.root
\* DB.Update(fn): the database after a read-write transaction that started
\* from root d and whose function left `out`: committed when the function
\* returned nil, rolled back when it returned an error.
dbUpdate(d, out) == IF out.err = NoErr THEN out.root ELSE d

(***************************************************************************)
(* rating: the five counters, their JSON form                              *)
(***************************************************************************)
Fields == <<"FiveStars", "FourStars", "ThreeStars", "TwoStars", "OneStars">>
FieldSet == {Fields[i] : i \in DOMAIN Fields}

\* the json tag of each field of the rating struct
JsonTag(f) ==
    CASE f = "FiveStars" -> "five_stars"
      [] f = "FourStars" -> "four_stars"
      [] f = "ThreeStars" -> "three_stars"
      [] f = "TwoStars" -> "two_stars"
      [] f = "OneStars" -> "one_stars"

Rating(a, b, c, d, e) ==
    [FiveStars |-> a, FourStars |-> b, ThreeStars |-> c, TwoStars |-> d,
     OneStars |-> e]

ZeroRating == Rating(0, 0, 0, 0, 0)

DigitChars == <<"0", "1", "2", "3", "4", "5", "6", "7", "8", "9">>

RECURSIVE ItoaNat(_)
ItoaNat(n) ==
    IF n < 10 THEN <<DigitChars[n + 1]>>
    ELSE Append(ItoaNat(n \div 10), DigitChars[(n % 10) + 1])

\* the decimal text json.Marshal writes for an int
Itoa(n) == IF n < 0 THEN <<"-">> \o ItoaNat(-n) ELSE ItoaNat(n)

IsDigit(c) == \E d \in 1..10 : DigitChars[d] = c
DigitVal(c) == (CHOOSE d \in 1..10 : DigitChars[d] = c) - 1

RECURSIVE AtoiNat(_)
AtoiNat(s) ==
    IF Len(s) = 0 THEN 0
    ELSE 10 * AtoiNat(SubSeq(s, 1, Len(s) - 1)) + DigitVal(s[Len(s)])

\* whether a member text is a JSON number that fits an int
IsIntText(s) ==
    /\ Len(s) > 0
    /\ LET digits == IF s[1] = "-" THEN Tail(s) ELSE s
       IN /\ Len(digits) > 0
          /\ \A i \in 1..Len(digits) : IsDigit(digits[i])
          /\ LET n == IF s[1] = "-" THEN -AtoiNat(digits) ELSE AtoiNat(digits)
             IN n >= MinInt /\ n <= MaxInt

Atoi(s) == IF s[1] = "-" THEN -AtoiNat(Tail(s)) ELSE AtoiNat(s)

\* json.Marshal(rating)
Marshal(r) == [i \in DOMAIN Fields |-> <<JsonTag(Fields[i]), Itoa(r[Fields[i]])>>]

\* the field a JSON member name sets, "" when it names none
FieldOfTag(name) ==
    IF \E f \in FieldSet : JsonTag(f) = name
    THEN CHOOSE f \in FieldSet : JsonTag(f) = name ELSE ""

\* json.Unmarshal from member i on: a member that names a field sets it (so
\* the last one wins); a member of a field whose text is no int is an error.
RECURSIVE UnmarshalFrom(_, _, _)
UnmarshalFrom(data, i, into) ==
    IF i > Len(data) THEN [v |-> into, err |-> NoErr]
    ELSE LET f == FieldOfTag(data[i][1])
         IN IF f = "" THEN UnmarshalFrom(data, i + 1, into)
            ELSE IF ~IsIntText(data[i][2]) THEN [v |-> into, err |-> ErrSyntax]
            ELSE UnmarshalFrom(data, i + 1, [into EXCEPT ![f] = Atoi(data[i][2])])

\* json.Unmarshal(data, &into)
Unmarshal(data, into) == UnmarshalFrom(data, 1, into)

\* rating.add with a slip of the pen: FourStars grows by the five-star count
addSlip(r, rt) ==
    [FiveStars |-> Wrap(r.FiveStars + rt.FiveStars),
     FourStars |-> Wrap(r.FourStars + rt.FiveStars),
     ThreeStars |-> Wrap(r.ThreeStars + rt.ThreeStars),
     TwoStars |-> Wrap(r.TwoStars + rt.TwoStars),
     OneStars |-> Wrap(r.OneStars + rt.OneStars)]

\* rating.add
add(r, rt) ==
    [FiveStars |-> Wrap(r.FiveStars + rt.FiveStars),
     FourStars |-> Wrap(r.FourStars + rt.FourStars),
     ThreeStars |-> Wrap(r.ThreeStars + rt.ThreeStars),
     TwoStars |-> Wrap(r.TwoStars + rt.TwoStars),
     OneStars |-> Wrap(r.OneStars + rt.OneStars)]

\* rating.ensureNotNegative that forgets the two-star counter
ensureNotNegativeButTwo(r) ==
    [FiveStars |-> IF r.FiveStars < 0 THEN 0 ELSE r.FiveStars,
     FourStars |-> IF r.FourStars < 0 THEN 0 ELSE r.FourStars,
     ThreeStars |-> IF r.ThreeStars < 0 THEN 0 ELSE r.ThreeStars,
     TwoStars |-> r.TwoStars,
     OneStars |-> IF r.OneStars < 0 THEN 0 ELSE r.OneStars]

\* rating.ensureNotNegative
ensureNotNegative(r) ==
    [FiveStars |-> IF r.FiveStars < 0 THEN 0 ELSE r.FiveStars,
     FourStars |-> IF r.FourStars < 0 THEN 0 ELSE r.FourStars,
     ThreeStars |-> IF r.ThreeStars < 0 THEN 0 ELSE r.ThreeStars,
     TwoStars |-> IF r.TwoStars < 0 THEN 0 ELSE r.TwoStars,
     OneStars |-> IF r.OneStars < 0 THEN 0 ELSE r.OneStars]

(***************************************************************************)
(* Resource types: setup, verify                                           *)
(***************************************************************************)
\* the resource types main provisions at start
commentables == <<"authors", "books">>

\* setup: the function run in the transaction
RECURSIVE setupTx(_, _)
setupTx(root, cmts) ==
    IF Len(cmts) = 0 THEN [root |-> root, err |-> NoErr]
    ELSE LET cr == CreateBucketIfNotExists(root, Head(cmts))
         IN IF cr.err # NoErr THEN [root |-> root, err |-> cr.err]
            ELSE setupTx(cr.b, Tail(cmts))

\* setup that commits each bucket it created, whatever comes after it
setupEach(d, cmts) ==
    LET out == setupTx(d, cmts)
    IN [db |-> out.root, err |-> out.err]

\* setup(db, cmts)
setup(d, cmts) ==
    LET out == setupTx(d, cmts)
    IN [db |-> dbUpdate(d, out), err |-> out.err]

\* verify(db, kind)
verify(d, kind) == HasBucket(d, kind)

(***************************************************************************)
(* rateable: save (merge) and get (fetch)                                  *)
(***************************************************************************)
\* rateable.save that looks the bucket of the resource up and never creates it
saveInstanceLookup(rtBucket, key) ==
    IF HasBucket(rtBucket, key) THEN [b |-> rtBucket, err |-> NoErr]
    ELSE [b |-> rtBucket, err |-> Errorf1(rateableNotFoundFmt, key)]

\* rateable.save: the bucket of the resource, created when it is missing
saveInstance(rtBucket, key) == CreateBucketIfNotExists(rtBucket, key)

\* rateable.save: the rating stored for the current one and the one given
mergeRating(currentRating, rt) == ensureNotNegative(add(currentRating, rt))

\* rateable.save that creates the bucket of a resource type that is missing
saveTypeCreate(root, kind) == CreateBucketIfNotExists(root, kind)

\* rateable.save: the bucket of the resource type, an error when it is missing
saveType(root, kind) ==
    IF ~HasBucket(root, kind)
    THEN [b |-> root, err |-> Errorf1(rateableTypeNotFoundFmt, kind)]
    ELSE [b |-> root, err |-> NoErr]

\* rateable.save: the function run in the transaction
saveTx(root0, kind, key, rt) ==
    IF saveType(root0, kind).err # NoErr
    THEN [root |-> root0, newRating |-> NilPtr, err |-> saveType(root0, kind).err]
    ELSE LET root == saveType(root0, kind).b IN
      LET rtBucket == SubBucket(root, kind)
          cr == saveInstance(rtBucket, key)
      IN IF cr.err # NoErr
         THEN [root |-> root, newRating |-> NilPtr, err |-> cr.err]
         ELSE
           LET rBucket == SubBucket(cr.b, key)
               data == Get(rBucket, ratingsKey)
               cur == IF data # NoData THEN Unmarshal(data, ZeroRating)
                      ELSE [v |-> ZeroRating, err |-> NoErr]
           IN IF cur.err # NoErr
              THEN [root |-> WithBucket(root, kind, cr.b), newRating |-> NilPtr,
                    err |-> cur.err]
              ELSE
                LET newRating == mergeRating(cur.v, rt)
                    pr == Put(rBucket, ratingsKey, Marshal(newRating))
                IN [root |-> WithBucket(root, kind, WithBucket(cr.b, key, pr.b)),
                    newRating |-> Ptr(newRating), err |-> pr.err]

\* rateable.save: what it returns, and the database it leaves, when its
\* transaction function left `out`
saveResult(d, out) ==
    [db |-> dbUpdate(d, out), rt |-> out.newRating, err |-> out.err]

\* rateable.save(rt)
save(d, kind, key, rt) == saveResult(d, saveTx(d, kind, key, rt))

\* rateable.get that reports a resource without a rating record as an error
getEmptyIsError == [rt |-> NilPtr, err |-> <<"rating not found">>]

\* rateable.get: what it returns for a resource that holds no rating record
getEmpty == [rt |-> Ptr(ZeroRating), err |-> NoErr]

\* rateable.get: the function run in the transaction
getTx(root, kind, key) ==
    IF ~HasBucket(root, kind)
    THEN [rt |-> NilPtr, err |-> Errorf1(rateableTypeNotFoundFmt, kind)]
    ELSE
      LET rtBucket == SubBucket(root, kind)
      IN IF ~HasBucket(rtBucket, key)
         THEN [rt |-> NilPtr, err |-> Errorf2(rateableNotFoundFmt, kind, key)]
         ELSE
           LET data == Get(SubBucket(rtBucket, key), ratingsKey)
           IN IF data = NoData THEN getEmpty
              ELSE LET u == Unmarshal(data, ZeroRating)
                   IN [rt |-> Ptr(u.v), err |-> u.err]

\* rateable.get(): a read-only transaction, which leaves the database as it is
get(d, kind, key) ==
    LET out == getTx(d, kind, key)
    IN [db |-> d, rt |-> out.rt, err |-> out.err]

(***************************************************************************)
(* commentable: ensure                                                     *)
(***************************************************************************)
\* commentable.ensure that creates the instance bucket anew each time
ensureTxReset(root, kind, key) ==
    IF ~HasBucket(root, kind)
    THEN [root |-> root, err |-> Errorf1("resource '%s' does not exist", kind)]
    ELSE IF key = "" THEN [root |-> root, err |-> ErrBucketNameRequired]
    ELSE [root |-> WithBucket(root, kind,
                      WithBucket(SubBucket(root, kind), key, EmptyBucket)),
          err |-> NoErr]

\* commentable.ensure: the function run in the transaction
ensureTx(root, kind, key) ==
    IF ~HasBucket(root, kind)
    THEN [root |-> root, err |-> Errorf1("resource '%s' does not exist", kind)]
    ELSE LET cr == CreateBucketIfNotExists(SubBucket(root, kind), key)
         IN [root |-> WithBucket(root, kind, cr.b), err |-> cr.err]

\* commentable.ensure()
ensure(d, kind, key) ==
    LET out == ensureTx(d, kind, key)
    IN [db |-> dbUpdate(d, out), err |-> out.err]

(***************************************************************************)
(* The rating service's requests                                           *)
(***************************************************************************)
\* service.respondWithMsg: the body with the message
MsgBody(msg) == << <<"message", msg>> >>

\* service.handlePut: the response once save has returned s.  On an error the
\* handler has written the 500 response when it logs *rt, the nil pointer
\* save returned.
handlePutRespond(s) ==
    IF s.err # NoErr
    THEN [db |-> s.db, code |-> StatusInternalServerError,
          body |-> MsgBody(ratingSaveErr), panicked |-> s.rt = NilPtr]
    ELSE [db |-> s.db, code |-> StatusOK, body |-> Marshal(Deref(s.rt)),
          panicked |-> FALSE]

\* service.handlePut, given the decoded rating: save it and respond
handlePutSave(d, kind, key, rt) == handlePutRespond(save(d, kind, key, rt))

\* service.handlePut
handlePut(d, kind, key, payload) ==
    LET dec == Unmarshal(payload, ZeroRating)
    IN IF dec.err # NoErr
       THEN [db |-> d, code |-> StatusBadRequest, body |-> MsgBody(ratingIsInvalid),
             panicked |-> FALSE]
       ELSE handlePutSave(d, kind, key, dec.v)

\* service.handleGet that answers a failed fetch with a rating of zeros
handleGetZeros(d, kind, key) ==
    LET g == get(d, kind, key)
    IN [db |-> g.db, code |-> StatusOK,
        body |-> Marshal(IF g.rt = NilPtr THEN ZeroRating ELSE Deref(g.rt)),
        panicked |-> FALSE]

\* service.handleGet
handleGet(d, kind, key) ==
    LET g == get(d, kind, key)
    IN IF g.err # NoErr
       THEN [db |-> g.db, code |-> StatusBadRequest, body |-> MsgBody(ratingFetchErr),
             panicked |-> FALSE]
       ELSE [db |-> g.db, code |-> StatusOK, body |-> Marshal(Deref(g.rt)),
             panicked |-> FALSE]

\* service.verifier: the response when the resource type is not provisioned
verifierReject(d, kind) ==
    [db |-> d, code |-> StatusNotAcceptable,
     body |-> MsgBody(Errorf1(rateableTypeNotFoundFmt, kind)), panicked |-> FALSE]

\* PUT /{rateableType}/{rateableKey}/ratings: verifier, then handlePut
servePut(d, kind, key, payload) ==
    IF ~verify(d, kind) THEN verifierReject(d, kind)
    ELSE handlePut(d, kind, key, payload)

\* GET /{rateableType}/{rateableKey}/ratings: verifier, then handleGet
serveGet(d, kind, key) ==
    IF ~verify(d, kind) THEN verifierReject(d, kind)
    ELSE handleGet(d, kind, key)

(***************************************************************************)
(* Inputs                                                                  *)
(***************************************************************************)
\* resource types of the requests: one provisioned, one not
Kinds == {"books", "films"}
\* resource keys of the attachment calls; the empty key names no bucket
Keys == {"b1", ""}
\* resource keys a route can carry: a path segment
RouteKeys == {"b1"}

Uniform(v) == Rating(v, v, v, v, v)
OnlyField(f, v) == [ZeroRating EXCEPT ![f] = v]

\* the ratings a caller merges
Deltas ==
    {Uniform(1), Uniform(-1), Rating(-MaxDelta, 1, 1, -1, 0),
     Rating(0, -1, 0, 1, -MaxDelta), OnlyField("ThreeStars", 1)}

\* the bodies of the PUT requests: ratings, a partial one, and one that does
\* not parse
Payloads ==
    {Marshal(Uniform(1)), Marshal(Rating(-MaxDelta, 1, 1, -1, 0)),
     << <<"five_stars", Itoa(1)>> >>,
     << <<"five_stars", <<"4", "}">> >> >>}

\* every counter of the rating an instance holds after the write is in range
InRange(d, kind, key) ==
    LET g == getTx(d, kind, key)
    IN g.rt # NilPtr => \A f \in FieldSet : Deref(g.rt)[f] <= MaxCount

(***************************************************************************)
(* The services, one request or call at a time                             *)
(***************************************************************************)
\* no process holds the writer lock
NoProc == 0
\* what the database held for a resource when an operation started
HasInstance(d, kind, key) == HasBucket(d, kind) /\ HasBucket(SubBucket(d, kind), key)
RecordOf(d, kind, key) ==
    IF HasInstance(d, kind, key)
    THEN Get(SubBucket(SubBucket(d, kind), key), ratingsKey) ELSE NoData
Before(d, kind, key) ==
    [type |-> HasBucket(d, kind), instance |-> HasInstance(d, kind, key),
     record |-> RecordOf(d, kind, key) # NoData]

NoOp ==
    [name |-> "init", kind |-> "", key |-> "", arg |-> <<>>,
     pre |-> [type |-> FALSE, instance |-> FALSE, record |-> FALSE]]
Op(name, kind, key, arg) ==
    [name |-> name, kind |-> kind, key |-> key, arg |-> arg,
     pre |-> Before(db, kind, key)]
NoRes ==
    [rt |-> NilPtr, err |-> NoErr, code |-> 0, body |-> <<>>, panicked |-> FALSE,
     c |-> NilPtr, list |-> <<>>, found |-> FALSE]

\* no update is in flight
NoUpd == <<>>
\* the comment service at start: no identifier generated, no update in flight
Fresh == guid = 0 /\ created = {} /\ upd = NoUpd

Idle ==
    /\ pc = <<>> /\ req = <<>> /\ txroot = <<>> /\ resp = <<>>
    /\ writer = NoProc

Init ==
    /\ db = setup(EmptyBucket, commentables).db
    /\ op = NoOp
    /\ res = NoRes
    /\ Idle
    /\ Fresh

Save(kind, key, rt) ==
    LET s == save(db, kind, key, rt)
    IN /\ InRange(s.db, kind, key)
       /\ db' = s.db
       /\ op' = Op("save", kind, key, rt)
       /\ res' = [NoRes EXCEPT !.rt = s.rt, !.err = s.err]
       /\ UNCHANGED <<pc, req, writer, txroot, resp, guid, created, upd>>

GetRating(kind, key) ==
    LET g == get(db, kind, key)
    IN /\ db' = g.db
       /\ op' = Op("get", kind, key, <<>>)
       /\ res' = [NoRes EXCEPT !.rt = g.rt, !.err = g.err]
       /\ UNCHANGED <<pc, req, writer, txroot, resp, guid, created, upd>>

Ensure(kind, key) ==
    LET e == ensure(db, kind, key)
    IN /\ db' = e.db
       /\ op' = Op("ensure", kind, key, <<>>)
       /\ res' = [NoRes EXCEPT !.err = e.err]
       /\ UNCHANGED <<pc, req, writer, txroot, resp, guid, created, upd>>

PutRequest(kind, key, payload) ==
    LET r == servePut(db, kind, key, payload)
    IN /\ InRange(r.db, kind, key)
       /\ db' = r.db
       /\ op' = Op("PUT", kind, key, payload)
       /\ res' = [NoRes EXCEPT !.code = r.code, !.body = r.body,
                               !.panicked = r.panicked]
       /\ UNCHANGED <<pc, req, writer, txroot, resp, guid, created, upd>>

GetRequest(kind, key) ==
    LET r == serveGet(db, kind, key)
    IN /\ db' = r.db
       /\ op' = Op("GET", kind, key, <<>>)
       /\ res' = [NoRes EXCEPT !.code = r.code, !.body = r.body,
                               !.panicked = r.panicked]
       /\ UNCHANGED <<pc, req, writer, txroot, resp, guid, created, upd>>

Next ==
    \/ \E kind \in Kinds, key \in Keys, rt \in Deltas : Save(kind, key, rt)
    \/ \E kind \in Kinds, key \in Keys : GetRating(kind, key)
    \/ \E kind \in Kinds, key \in Keys : Ensure(kind, key)
    \/ \E kind \in Kinds, key \in RouteKeys, payload \in Payloads :
          PutRequest(kind, key, payload)
    \/ \E kind \in Kinds, key \in RouteKeys : GetRequest(kind, key)

Spec == Init /\ [][Next]_vars

(***************************************************************************)
(* The rating service, PUT requests served concurrently.  Each request     *)
(* runs the verifier (a read-only transaction), decodes its body, and      *)
(* saves in a read-write transaction; bolt lets one read-write transaction *)
(* be open at a time.                                                      *)
(***************************************************************************)
Procs == 1..NumProcs
PutKeys == {"b1", "b2"}
PutPayloads == {Marshal(Uniform(1)), Marshal(Rating(-MaxDelta, 1, 1, -1, 0))}

NoReq == [kind |-> "", key |-> "", payload |-> <<>>, rt |-> ZeroRating,
          contended |-> FALSE]
NoResp == [code |-> 0, body |-> <<>>, panicked |-> FALSE]
Response(r) == [code |-> r.code, body |-> r.body, panicked |-> r.panicked]

InitPut ==
    /\ db = setup(EmptyBucket, commentables).db
    /\ op = NoOp
    /\ res = NoRes
    /\ Fresh
    /\ pc = [p \in Procs |-> "idle"]
    /\ req = [p \in Procs |-> NoReq]
    /\ txroot = [p \in Procs |-> EmptyBucket]
    /\ resp = [p \in Procs |-> NoResp]
    /\ writer = NoProc

\* DB.Update that takes no lock
WriterLockIgnored(w) == TRUE

\* DB.Update: a read-write transaction begins once no other one is open
WriterLockFree(w) == w = NoProc

\* the request arrives and service.verifier runs
Arrive(p, kind, key, payload) ==
    /\ pc[p] = "idle"
    /\ req' = [req EXCEPT ![p] = [NoReq EXCEPT !.kind = kind, !.key = key,
                                               !.payload = payload]]
    /\ IF ~verify(db, kind)
       THEN /\ resp' = [resp EXCEPT ![p] = Response(verifierReject(db, kind))]
            /\ pc' = [pc EXCEPT ![p] = "done"]
       ELSE /\ pc' = [pc EXCEPT ![p] = "handler"]
            /\ UNCHANGED resp
    /\ UNCHANGED <<db, op, res, writer, txroot, guid, created, upd>>

\* service.handlePut decodes the body
Decode(p) ==
    /\ pc[p] = "handler"
    /\ LET dec == Unmarshal(req[p].payload, ZeroRating)
       IN IF dec.err # NoErr
          THEN /\ resp' = [resp EXCEPT ![p] =
                              Response(handlePut(db, req[p].kind, req[p].key,
                                                 req[p].payload))]
               /\ pc' = [pc EXCEPT ![p] = "done"]
               /\ UNCHANGED req
          ELSE /\ req' = [req EXCEPT ![p].rt = dec.v]
               /\ pc' = [pc EXCEPT ![p] = "save"]
               /\ UNCHANGED resp
    /\ UNCHANGED <<db, op, res, writer, txroot, guid, created, upd>>

\* rateable.save: DB.Update begins the read-write transaction
Begin(p) ==
    /\ pc[p] = "save"
    /\ WriterLockFree(writer)
    /\ writer' = p
    /\ txroot' = [txroot EXCEPT ![p] = db]
    /\ req' = [req EXCEPT ![p].contended =
                  \E q \in Procs \ {p} : pc[q] \in {"save", "intx"}]
    /\ pc' = [pc EXCEPT ![p] = "intx"]
    /\ UNCHANGED <<db, op, res, resp, guid, created, upd>>

\* rateable.save: the transaction function runs, DB.Update commits or rolls
\* back and releases the lock; service.handlePut responds
Commit(p) ==
    /\ pc[p] = "intx"
    /\ LET out == saveTx(txroot[p], req[p].kind, req[p].key, req[p].rt)
           s == saveResult(db, out)
       IN /\ db' = s.db
          /\ resp' = [resp EXCEPT ![p] = Response(handlePutRespond(s))]
    /\ writer' = NoProc
    /\ pc' = [pc EXCEPT ![p] = "done"]
    /\ UNCHANGED <<op, res, req, txroot, guid, created, upd>>

NextPut ==
    \/ \E p \in Procs, kind \in Kinds, key \in PutKeys, payload \in PutPayloads :
          Arrive(p, kind, key, payload)
    \/ \E p \in Procs : Decode(p)
    \/ \E p \in Procs : Begin(p)
    \/ \E p \in Procs : Commit(p)

SpecPut == InitPut /\ [][NextPut]_vars

(***************************************************************************)
(* Properties of the rating attachment                                     *)
(***************************************************************************)
Max(a, b) == IF a >= b THEN a ELSE b

\* the number a rating record holds for field f, read from its text
CounterOf(data, f) ==
    Atoi(data[CHOOSE i \in DOMAIN data : data[i][1] = JsonTag(f)][2])

\* the aggregate a rating record holds; all-zero for no record
AggregateOf(data) ==
    IF data = NoData THEN ZeroRating ELSE [f \in FieldSet |-> CounterOf(data, f)]

\* the resources that hold a rating record
Rated(d) ==
    {kk \in Kinds \X Keys : RecordOf(d, kk[1], kk[2]) # NoData}

IsMerge == op.name = "save" /\ res.err = NoErr

\* C1: after any sequence of merges with signed deltas, starting without a
\* record, each of the five counters of every stored aggregate and of every
\* aggregate a merge, a fetch or a request returned is >= 0.
C1_CountersNeverNegative ==
    /\ \A kk \in Rated(db) : \A f \in FieldSet :
          CounterOf(RecordOf(db, kk[1], kk[2]), f) >= 0
    /\ (op.name \in {"save", "get"} /\ res.rt # NilPtr)
          => \A f \in FieldSet : Deref(res.rt)[f] >= 0
    /\ (op.name \in {"PUT", "GET"} /\ res.code = StatusOK)
          => \A f \in FieldSet : CounterOf(res.body, f) >= 0

\* a merge took a counter below zero and it was stored as 0, beside a counter
\* that grew
C1_Witness ==
    /\ IsMerge
    /\ op.arg = Rating(0, -1, 0, 1, -MaxDelta)
    /\ Deref(res.rt) = Rating(1, 0, 1, 2, 0)
    /\ AggregateOf(RecordOf(db, op.kind, op.key)) = Rating(1, 0, 1, 2, 0)

\* C2: one merge returns and persists max(0, existing + delta) for each of
\* the five counters, an absent record counting as all-zero (so the floor is
\* applied at every merge), and a fetch right after the merge returns the
\* aggregate the merge returned.
C2_MergeAddsThenClamps ==
    [][(op'.name = "save" /\ res'.err = NoErr) =>
         LET existing == AggregateOf(RecordOf(db, op'.kind, op'.key))
             stored == AggregateOf(RecordOf(db', op'.kind, op'.key))
         IN /\ res'.rt # NilPtr
            /\ \A f \in FieldSet :
                  /\ Deref(res'.rt)[f] = Max(0, existing[f] + op'.arg[f])
                  /\ stored[f] = Deref(res'.rt)[f]
            /\ RecordOf(db', op'.kind, op'.key) # NoData
            /\ get(db', op'.kind, op'.key).rt = res'.rt
            /\ get(db', op'.kind, op'.key).err = NoErr]_vars

\* a merge on an existing aggregate: one counter floored at 0, one grown to 2
C2_Witness ==
    /\ IsMerge
    /\ op.pre.record
    /\ op.arg = Rating(-MaxDelta, 1, 1, -1, 0)
    /\ Deref(res.rt).FiveStars = 0
    /\ Deref(res.rt).FourStars = 2

\* C8: a merge for a resource whose bucket does not exist yet, under a
\* provisioned type (and with a key that can name a bucket), creates the
\* bucket and stores the clamped delta as its aggregate; a fetch then returns
\* that aggregate; the PUT request that carries the merge answers 200.
C8_FirstMergeCreatesInstance ==
    /\ (op.name = "save" /\ op.pre.type /\ ~op.pre.instance /\ op.key # "")
          => /\ res.err = NoErr
             /\ HasInstance(db, op.kind, op.key)
             /\ \A f \in FieldSet :
                   /\ AggregateOf(RecordOf(db, op.kind, op.key))[f] = Max(0, op.arg[f])
                   /\ Deref(res.rt)[f] = Max(0, op.arg[f])
             /\ get(db, op.kind, op.key).err = NoErr
             /\ get(db, op.kind, op.key).rt = res.rt
    /\ (op.name = "PUT" /\ op.pre.type /\ ~op.pre.instance
           /\ Unmarshal(op.arg, ZeroRating).err = NoErr)
          => /\ res.code = StatusOK
             /\ HasInstance(db, op.kind, op.key)
             /\ \A f \in FieldSet :
                   /\ AggregateOf(RecordOf(db, op.kind, op.key))[f]
                         = Max(0, Unmarshal(op.arg, ZeroRating).v[f])
                   /\ CounterOf(res.body, f) = Max(0, Unmarshal(op.arg, ZeroRating).v[f])
             /\ get(db, op.kind, op.key).err = NoErr

\* a PUT created the resource and answered 200 with the clamped delta
C8_Witness ==
    /\ op.name = "PUT"
    /\ op.pre.type /\ ~op.pre.instance
    /\ op.arg = Marshal(Rating(-MaxDelta, 1, 1, -1, 0))
    /\ res.code = StatusOK
    /\ AggregateOf(RecordOf(db, op.kind, op.key)) = Rating(0, 1, 1, 0, 0)

\* C9 as the specification states it: a rating write for a resource whose
\* bucket was not provisioned beforehand does not create that bucket.
C9_NoAutoCreate ==
    (op.name \in {"save", "PUT"} /\ ~op.pre.instance)
        => ~HasInstance(db, op.kind, op.key)

\* C9, amended: a merge for a resource whose bucket does not exist creates
\* that bucket when the resource type is provisioned and the key is not
\* empty; it leaves the resource without a bucket exactly when the type is
\* not provisioned or the key is empty, and then it returns an error.
C9_AutoCreateUnlessNoTypeOrKey ==
    (op.name = "save" /\ ~op.pre.instance)
        => /\ HasInstance(db, op.kind, op.key) <=> (op.pre.type /\ op.key # "")
           /\ HasBucket(db, op.kind) <=> op.pre.type
           /\ res.err = NoErr <=> HasInstance(db, op.kind, op.key)

\* a merge under a type that is not provisioned failed and created nothing
C9_Witness ==
    /\ op.name = "save"
    /\ ~op.pre.type
    /\ op.key # ""
    /\ res.err = Errorf1(rateableTypeNotFoundFmt, op.kind)
    /\ ~HasBucket(db, op.kind)

\* C10: a fetch on a resource whose bucket exists but holds no rating record
\* returns an all-zero aggregate and no error, and writes no record.
C10_FetchWithoutRecordIsZero ==
    (op.name = "get" /\ op.pre.instance /\ ~op.pre.record)
        => /\ res.err = NoErr
           /\ res.rt = Ptr(ZeroRating)
           /\ HasInstance(db, op.kind, op.key)
           /\ RecordOf(db, op.kind, op.key) = NoData

\* a fetch ran on a provisioned resource without a record
C10_Witness ==
    /\ op.name = "get"
    /\ op.pre.instance /\ ~op.pre.record
    /\ res.rt = Ptr(ZeroRating)

(***************************************************************************)
(* Properties of concurrent merges                                         *)
(***************************************************************************)
AllDone == \A p \in Procs : pc[p] = "done"

\* the requests whose merge ran
Merged == {p \in Procs : pc[p] = "done" /\ resp[p].code \in {StatusOK, StatusInternalServerError}}

\* the orders in which the merges of a set of requests can be applied
Orders(S) ==
    {o \in [1..Cardinality(S) -> S] :
        \A i, j \in 1..Cardinality(S) : o[i] = o[j] => i = j}

\* the database after the merges of order o, from its i-th on, applied to d
\* one after another
RECURSIVE SerialFrom(_, _, _, _)
SerialFrom(d, o, i, n) ==
    IF i > n THEN d
    ELSE SerialFrom(save(d, req[o[i]].kind, req[o[i]].key, req[o[i]].rt).db,
                    o, i + 1, n)

RECURSIVE SumOf(_, _, _, _)
SumOf(S, kind, key, f) ==
    IF S = {} THEN 0
    ELSE LET p == CHOOSE q \in S : TRUE
             mine == IF req[p].kind = kind /\ req[p].key = key THEN req[p].rt[f] ELSE 0
         IN mine + SumOf(S \ {p}, kind, key, f)

\* C3: concurrent merges lose no update: once all requests have completed,
\* the database equals the result of applying their merges one after another
\* in some order; when no delta has a negative counter, every stored counter
\* is the sum of the deltas merged into its resource.
C3_NoLostUpdate ==
    AllDone =>
        /\ \E o \in Orders(Merged) :
              db = SerialFrom(setup(EmptyBucket, commentables).db, o, 1,
                              Cardinality(Merged))
        /\ (\A p \in Merged : \A f \in FieldSet : req[p].rt[f] >= 0)
              => \A kind \in Kinds, key \in PutKeys, f \in FieldSet :
                    AggregateOf(RecordOf(db, kind, key))[f] = SumOf(Merged, kind, key, f)

\* two merges of the same resource were in flight together, one waited for
\* the other's transaction, and both have completed
C3_Witness ==
    /\ AllDone
    /\ \E p, q \in Merged :
          /\ p # q
          /\ req[p].kind = req[q].kind /\ req[p].key = req[q].key
          /\ req[p].contended
          /\ resp[p].code = StatusOK /\ resp[q].code = StatusOK

(***************************************************************************)
(* comment: the entity and its JSON form                                   *)
(***************************************************************************)
commentableNotFoundFmt == "%s not found with key %s"
commentableTypeNotFoundFmt == "commentable type, %s, not found"
commentNotFoundFmt == "comment with key %s not found for %s with id %s"
commentsKey == "comments"
ErrNilComment == <<"comment should not be empty">>

Comment(id, value) == [ID |-> id, Value |-> value]
ZeroComment == Comment("", "")

\* the text of a JSON string, and the string such a text denotes
Quote(s) == <<"\"", s, "\"">>
IsStringText(t) == Len(t) = 3 /\ t[1] = "\"" /\ t[3] = "\""
Unquote(t) == t[2]

\* json.Marshal of a comment: the members "id" and "value"
MarshalComment(c) == << <<"id", Quote(c.ID)>>, <<"value", Quote(c.Value)>> >>

\* every member of the object is well formed
CommentSyntaxOk(data) ==
    \A i \in DOMAIN data :
        data[i][1] \in {"id", "value"} => IsStringText(data[i][2])

RECURSIVE UnmarshalCommentFrom(_, _, _)
UnmarshalCommentFrom(data, i, c) ==
    IF i > Len(data) THEN c
    ELSE LET m == data[i]
             c1 == IF m[1] = "id" THEN [c EXCEPT !.ID = Unquote(m[2])]
                   ELSE IF m[1] = "value" THEN [c EXCEPT !.Value = Unquote(m[2])]
                   ELSE c
         IN UnmarshalCommentFrom(data, i + 1, c1)

\* json.Unmarshal(data, &c): members set in the order of the text, unknown
\* members skipped, nothing set when the text does not parse
UnmarshalComment(data, into) ==
    IF ~CommentSyntaxOk(data) THEN [c |-> into, err |-> ErrSyntax]
    ELSE [c |-> UnmarshalCommentFrom(data, 1, into), err |-> NoErr]

(***************************************************************************)
(* betterguid: identifiers never handed out before.  The generator is      *)
(* kept as the number of identifiers it has produced.                      *)
(***************************************************************************)
\* Number of identifiers the generator hands out in a run.
MaxCreates == 2

IdOf(n) == "-" \o ToString(n)
\* betterguid.New()
New(g) == [guid |-> g + 1, id |-> IdOf(g + 1)]

(***************************************************************************)
(* commentable: exists, add, save, get, remove, list                       *)
(***************************************************************************)
\* commentable.exists that takes an instance without comments for absent
existsWithComments(d, kind, key) ==
    /\ HasBucket(d, kind) /\ HasBucket(SubBucket(d, kind), key)
    /\ HasBucket(SubBucket(SubBucket(d, kind), key), "comments")

\* commentable.exists()
exists(d, kind, key) == HasBucket(d, kind) /\ HasBucket(SubBucket(d, kind), key)

\* the root with the comments bucket of every instance of the type replaced
WithCommentsOfAll(root, kind, key, inst, comments) ==
    WithBucket(root, kind,
        [k \in DOMAIN SubBucket(root, kind) |->
            <<"B", WithBucket(IF k = key THEN inst
                              ELSE SubBucket(SubBucket(root, kind), k),
                              commentsKey, comments)>>])

\* the root with the comments bucket of an instance replaced
WithComments(root, kind, key, inst, comments) ==
    WithBucket(root, kind,
        WithBucket(SubBucket(root, kind), key,
            WithBucket(inst, commentsKey, comments)))

\* commentable.save: comments.Put([]byte(c.ID), data)
savePutIfAbsent(comments, c, data) ==
    IF c.ID \in DOMAIN comments THEN [b |-> comments, err |-> NoErr]
    ELSE Put(comments, c.ID, data)
savePut(comments, c, data) == Put(comments, c.ID, data)

\* commentable.save: rBucket := cmBucket.Bucket([]byte(cm.key))
saveResourceCreated(cmBucket, key) ==
    LET cr == CreateBucketIfNotExists(cmBucket, key)
    IN [b |-> cr.b, found |-> cr.err = NoErr]
saveResource(cmBucket, key) == [b |-> cmBucket, found |-> HasBucket(cmBucket, key)]

\* commentable.save: the function run in the transaction
commentableSaveTx(root, kind, key, c) ==
    IF ~HasBucket(root, kind)
    THEN [root |-> root, err |-> Errorf1(commentableTypeNotFoundFmt, kind)]
    ELSE LET rs == saveResource(SubBucket(root, kind), key)
             root1 == WithBucket(root, kind, rs.b)
         IN IF ~rs.found
            THEN [root |-> root1, err |-> Errorf2(commentableNotFoundFmt, key, kind)]
            ELSE LET rBucket == SubBucket(rs.b, key)
                     cr == CreateBucketIfNotExists(rBucket, commentsKey)
                 IN IF cr.err # NoErr
                    THEN [root |-> root1,
                          err |-> <<"error setting up comments for %s with key %s %v",
                                    kind, key, cr.err>>]
                    ELSE LET pt == savePut(SubBucket(cr.b, commentsKey), c,
                                           MarshalComment(c))
                         IN [root |-> WithComments(root1, kind, key, cr.b, pt.b),
                             err |-> pt.err]

\* commentable.save: clear out the comment if an error occurred
saveReturnedKept(cp, err) == cp
saveReturned(cp, err) == IF err # NoErr THEN NilPtr ELSE cp

\* commentable.save(c)
commentableSave(d, kind, key, cp) ==
    IF cp = NilPtr THEN [db |-> d, c |-> NilPtr, err |-> ErrNilComment]
    ELSE LET out == commentableSaveTx(d, kind, key, Deref(cp))
         IN [db |-> dbUpdate(d, out),
             c |-> saveReturned(cp, out.err),
             err |-> out.err]

\* commentable.add: c.ID = betterguid.New()
addIDKept(c, id) == c
addID(c, id) == [c EXCEPT !.ID = id]

\* commentable.add: if c == nil
addRejectsEmptyText(cp) == cp = NilPtr \/ Deref(cp).Value = ""
addRejects(cp) == cp = NilPtr

\* commentable.add(c), with the generator at g
commentableAdd(d, g, kind, key, cp) ==
    IF addRejects(cp)
    THEN [db |-> d, guid |-> g, c |-> NilPtr, err |-> ErrNilComment]
    ELSE LET n == New(g)
             s == commentableSave(d, kind, key, Ptr(addID(Deref(cp), n.id)))
         IN [db |-> s.db, guid |-> n.guid, c |-> s.c, err |-> s.err]

\* commentable.get: if cmm == nil
getMissingIsZero(cKey, kind, key) == [c |-> Ptr(ZeroComment), err |-> NoErr]
getMissing(cKey, kind, key) ==
    [c |-> NilPtr, err |-> Errorf3(commentNotFoundFmt, cKey, kind, key)]

\* commentable.get: the function run in the read-only transaction
commentableGetTx(root, kind, key, cKey) ==
    IF ~HasBucket(root, kind)
    THEN [c |-> NilPtr, err |-> Errorf1(commentableTypeNotFoundFmt, kind)]
    ELSE IF ~HasBucket(SubBucket(root, kind), key)
    THEN [c |-> NilPtr, err |-> Errorf2(commentableNotFoundFmt, kind, key)]
    ELSE LET rBucket == SubBucket(SubBucket(root, kind), key)
         IN IF ~HasBucket(rBucket, commentsKey)
            THEN [c |-> NilPtr,
                  err |-> Errorf3(commentNotFoundFmt, cKey, kind, key)]
            ELSE LET cmm == Get(SubBucket(rBucket, commentsKey), cKey)
                 IN IF cmm = NoData
                    THEN getMissing(cKey, kind, key)
                    ELSE LET u == UnmarshalComment(cmm, ZeroComment)
                         IN [c |-> Ptr(u.c), err |-> u.err]

\* commentable.get(cKey): a read-only transaction leaves the database alone
commentableGet(d, kind, key, cKey) ==
    LET out == commentableGetTx(d, kind, key, cKey)
    IN [db |-> d, c |-> out.c, err |-> out.err]

\* commentable.remove: the format of its error for a missing comments bucket
removeNotFoundFmt == "comment with key %s not found for %s resource with id %s"

\* commentable.remove: comments.Delete([]byte(cKey))
removeEntryKept(comments, cKey) == [b |-> comments, err |-> NoErr]
removeEntryStrict(comments, cKey) ==
    IF cKey \in DOMAIN comments THEN Delete(comments, cKey)
    ELSE [b |-> comments, err |-> Errorf1("key %s not found", cKey)]
removeEntry(comments, cKey) == Delete(comments, cKey)

\* commentable.remove that deletes the instance bucket with its comments
commentableRemoveTxWithInstance(root, kind, key, cKey) ==
    IF ~HasBucket(root, kind)
    THEN [root |-> root, err |-> Errorf1(commentableTypeNotFoundFmt, kind)]
    ELSE IF ~HasBucket(SubBucket(root, kind), key)
    THEN [root |-> root, err |-> Errorf2(commentableNotFoundFmt, key, kind)]
    ELSE [root |-> WithBucket(root, kind,
                      [k \in DOMAIN SubBucket(root, kind) \ {key} |->
                          SubBucket(root, kind)[k]]),
          err |-> NoErr]

\* commentable.remove: the function run in the transaction
commentableRemoveTx(root, kind, key, cKey) ==
    IF ~HasBucket(root, kind)
    THEN [root |-> root, err |-> Errorf1(commentableTypeNotFoundFmt, kind)]
    ELSE IF ~HasBucket(SubBucket(root, kind), key)
    THEN [root |-> root, err |-> Errorf2(commentableNotFoundFmt, key, kind)]
    ELSE LET rBucket == SubBucket(SubBucket(root, kind), key)
         IN IF ~HasBucket(rBucket, commentsKey)
            THEN [root |-> root,
                  err |-> Errorf3(removeNotFoundFmt, cKey, kind, key)]
            ELSE LET dl == removeEntry(SubBucket(rBucket, commentsKey), cKey)
                 IN [root |-> WithComments(root, kind, key, rBucket, dl.b),
                     err |-> dl.err]

\* commentable.remove(cKey)
commentableRemove(d, kind, key, cKey) ==
    LET out == commentableRemoveTx(d, kind, key, cKey)
    IN [db |-> dbUpdate(d, out), err |-> out.err]

\* the identifiers a client can name that the generator never produces
ClientIds == <<"1234", "zzz">>
\* the byte of a character of a key
ByteOf(ch) ==
    CASE ch = "-" -> 45
      [] ch = "z" -> 122
      [] OTHER -> 48 + DigitVal(ch)

\* bytes.Compare(a, b) < 0, the order of bolt's cursor over keys
RECURSIVE KeyLessFrom(_, _, _)
KeyLessFrom(a, b, i) ==
    IF i > Len(b) THEN FALSE
    ELSE IF i > Len(a) THEN TRUE
    ELSE LET x == ByteOf(SubSeq(a, i, i))
             y == ByteOf(SubSeq(b, i, i))
         IN IF x # y THEN x < y ELSE KeyLessFrom(a, b, i + 1)
KeyLess(a, b) == KeyLessFrom(a, b, 1)

RECURSIVE SortKeys(_)
SortKeys(S) ==
    IF S = {} THEN <<>>
    ELSE LET m == CHOOSE k \in S : \A o \in S \ {k} : KeyLess(k, o)
         IN <<m>> \o SortKeys(S \ {m})

\* Bucket.ForEach: the keys of a bucket in ascending byte order
KeysInReverse(b) ==
    LET ks == SortKeys(DOMAIN b)
    IN [i \in 1..Len(ks) |-> ks[Len(ks) + 1 - i]]
KeysInOrder(b) == SortKeys(DOMAIN b)

\* commentable.list: ForEach over the comments, appending each decoded one
RECURSIVE listFrom(_, _, _, _)
listFrom(komments, keys, i, acc) ==
    IF i > Len(keys) THEN [list |-> acc, err |-> NoErr]
    ELSE LET u == UnmarshalComment(komments[keys[i]][2], ZeroComment)
         IN IF u.err # NoErr THEN [list |-> acc, err |-> u.err]
            ELSE listFrom(komments, keys, i + 1, Append(acc, u.c))

\* commentable.list: comments = []*comment{}, and komments == nil returns nil
listNoBucketIsError(kind, key) ==
    [list |-> NilPtr, err |-> Errorf3(commentNotFoundFmt, "", kind, key)]
listNoBucket(kind, key) == [list |-> Ptr(<<>>), err |-> NoErr]

\* commentable.list: the function run in the read-only transaction.  The
\* slice is nil until the instance is found, empty from then on.
commentableListTx(root, kind, key) ==
    IF ~HasBucket(root, kind)
    THEN [list |-> NilPtr, err |-> Errorf1(commentableTypeNotFoundFmt, kind)]
    ELSE IF ~HasBucket(SubBucket(root, kind), key)
    THEN [list |-> NilPtr, err |-> Errorf2(commentableNotFoundFmt, key, kind)]
    ELSE LET rBucket == SubBucket(SubBucket(root, kind), key)
         IN IF ~HasBucket(rBucket, commentsKey)
            THEN listNoBucket(kind, key)
            ELSE LET komments == SubBucket(rBucket, commentsKey)
                     l == listFrom(komments, KeysInOrder(komments), 1, <<>>)
                 IN [list |-> Ptr(l.list), err |-> l.err]

\* commentable.list()
commentableList(d, kind, key) ==
    LET out == commentableListTx(d, kind, key)
    IN [db |-> d, list |-> out.list, err |-> out.err]

(***************************************************************************)
(* The comment attachment, one call at a time                              *)
(***************************************************************************)
\* the instances the calls name: one under a provisioned type, one under a
\* type that is not provisioned, and one with the empty key
Targets == {<<"books", "b1">>, <<"films", "b1">>, <<"books", "">>}
\* the texts of the comments
Values == {"foo", "bar"}
\* the comments bucket of an instance, empty when there is none
StoredComments(d, kind, key) ==
    IF exists(d, kind, key)
       /\ HasBucket(SubBucket(SubBucket(d, kind), key), commentsKey)
    THEN SubBucket(SubBucket(SubBucket(d, kind), key), commentsKey)
    ELSE EmptyBucket
StoredIds(d, kind, key) == DOMAIN StoredComments(d, kind, key)
\* the identifiers a call names: the stored ones and one that is not generated
NamedIds(kind, key) == StoredIds(db, kind, key) \cup {ClientIds[1]}
\* the entities a caller passes to add: nil, or a text (possibly empty) with or
\* without an id
NewComments ==
    {NilPtr, Ptr(Comment(ClientIds[1], "foo")), Ptr(Comment("", ""))}
        \cup {Ptr(Comment("", v)) : v \in Values}
\* the entities a caller passes to save: nil, or an id (possibly empty) and a text
Entities(kind, key) ==
    {NilPtr} \cup {Ptr(Comment(id, v)) : id \in NamedIds(kind, key) \cup {""},
                                        v \in Values}

CommentOp(name, kind, key, arg, cKey) ==
    [name |-> name, kind |-> kind, key |-> key, arg |-> arg,
     pre |-> [type |-> HasBucket(db, kind), instance |-> exists(db, kind, key),
              record |-> cKey \in StoredIds(db, kind, key)]]

CommentAdd(kind, key, cp) ==
    LET a == commentableAdd(db, guid, kind, key, cp)
    IN /\ a.guid <= MaxCreates
       /\ db' = a.db
       /\ guid' = a.guid
       /\ created' = IF a.err = NoErr
                     THEN created \cup {<<kind, key, Deref(a.c).ID>>}
                     ELSE created
       /\ op' = CommentOp("comment.add", kind, key, cp, "")
       /\ res' = [NoRes EXCEPT !.c = a.c, !.err = a.err]
       /\ UNCHANGED <<pc, req, writer, txroot, resp, upd>>

CommentSave(kind, key, cp) ==
    LET s == commentableSave(db, kind, key, cp)
    IN /\ db' = s.db
       /\ op' = CommentOp("comment.save", kind, key, cp,
                          IF cp = NilPtr THEN "" ELSE Deref(cp).ID)
       /\ res' = [NoRes EXCEPT !.c = s.c, !.err = s.err]
       /\ UNCHANGED <<pc, req, writer, txroot, resp, guid, created, upd>>

CommentGet(kind, key, cKey) ==
    LET g == commentableGet(db, kind, key, cKey)
    IN /\ db' = g.db
       /\ op' = CommentOp("comment.get", kind, key, cKey, cKey)
       /\ res' = [NoRes EXCEPT !.c = g.c, !.err = g.err]
       /\ UNCHANGED <<pc, req, writer, txroot, resp, guid, created, upd>>

CommentRemove(kind, key, cKey) ==
    LET r == commentableRemove(db, kind, key, cKey)
    IN /\ db' = r.db
       /\ op' = CommentOp("comment.remove", kind, key, cKey, cKey)
       /\ res' = [NoRes EXCEPT !.err = r.err]
       /\ UNCHANGED <<pc, req, writer, txroot, resp, guid, created, upd>>

CommentList(kind, key) ==
    LET l == commentableList(db, kind, key)
    IN /\ db' = l.db
       /\ op' = CommentOp("comment.list", kind, key, <<>>, "")
       /\ res' = [NoRes EXCEPT !.list = l.list, !.err = l.err]
       /\ UNCHANGED <<pc, req, writer, txroot, resp, guid, created, upd>>

Exists(kind, key) ==
    /\ op' = CommentOp("comment.exists", kind, key, <<>>, "")
    /\ res' = [NoRes EXCEPT !.found = exists(db, kind, key)]
    /\ UNCHANGED <<db, pc, req, writer, txroot, resp, guid, created, upd>>

NextComment ==
    \/ \E t \in Targets, cp \in NewComments :
          CommentAdd(t[1], t[2], cp)
    \/ \E t \in Targets : \E cp \in Entities(t[1], t[2]) :
          CommentSave(t[1], t[2], cp)
    \/ \E t \in Targets : \E cKey \in NamedIds(t[1], t[2]) :
          CommentGet(t[1], t[2], cKey)
    \/ \E t \in Targets : \E cKey \in NamedIds(t[1], t[2]) :
          CommentRemove(t[1], t[2], cKey)
    \/ \E t \in Targets : CommentList(t[1], t[2])
    \/ \E t \in Targets : Exists(t[1], t[2])
    \/ \E t \in Targets : Ensure(t[1], t[2])

SpecComment == Init /\ [][NextComment]_vars

(***************************************************************************)
(* Properties of the comment attachment                                    *)
(***************************************************************************)
\* every comment of the instance other than `id` is stored alike before and
\* after the step
OthersUnchanged(kind, key, id) ==
    /\ StoredIds(db', kind, key) \ {id} = StoredIds(db, kind, key) \ {id}
    /\ \A k \in StoredIds(db, kind, key) \ {id} :
          StoredComments(db', kind, key)[k] = StoredComments(db, kind, key)[k]

\* C4: after a successful add of a text, get with the returned identifier
\* returns a comment with that identifier and that text; the identifier was
\* neither returned by an earlier add on the instance nor stored, so the add
\* overwrites nothing and the instance holds exactly one comment more.
C4_CreateThenFetch ==
    [][(op'.name = "comment.add" /\ res'.err = NoErr) =>
          /\ res'.c # NilPtr
          /\ LET kind == op'.kind
                 key == op'.key
                 id == Deref(res'.c).ID
                 g == commentableGet(db', kind, key, id)
             IN /\ g.err = NoErr
                /\ g.c = Ptr(Comment(id, Deref(op'.arg).Value))
                /\ <<kind, key, id>> \notin created
                /\ id \notin StoredIds(db, kind, key)
                /\ Cardinality(StoredIds(db', kind, key))
                      = Cardinality(StoredIds(db, kind, key)) + 1
                /\ OthersUnchanged(kind, key, id)]_vars

\* an add succeeded for a caller that supplied an identifier of its own, on
\* an instance that holds another comment and from which a comment created
\* earlier has been removed
C4_Witness ==
    /\ op.name = "comment.add" /\ res.err = NoErr
    /\ Deref(op.arg).ID # ""
    /\ Cardinality(StoredIds(db, op.kind, op.key)) >= 2
    /\ \E t \in created : t[3] \notin StoredIds(db, op.kind, op.key)

\* C5: after a successful remove of an identifier, get of that identifier
\* fails with the comment-not-found error, list holds no comment with that
\* identifier, and every other comment of the instance is stored as before.
C5_RemoveThenFetchFails ==
    [][(op'.name = "comment.remove" /\ res'.err = NoErr) =>
          LET kind == op'.kind
              key == op'.key
              id == op'.arg
              g == commentableGet(db', kind, key, id)
              l == commentableList(db', kind, key)
          IN /\ g.c = NilPtr
             /\ g.err = Errorf3(commentNotFoundFmt, id, kind, key)
             /\ l.err = NoErr
             /\ \A i \in DOMAIN Deref(l.list) : Deref(l.list)[i].ID # id
             /\ id \notin StoredIds(db', kind, key)
             /\ OthersUnchanged(kind, key, id)]_vars

\* a stored comment was removed from an instance that still holds another
C5_Witness ==
    /\ op.name = "comment.remove" /\ res.err = NoErr
    /\ op.pre.record
    /\ StoredIds(db, op.kind, op.key) # {}

\* C6: a successful save of an entity whose identifier is stored overwrites
\* that entry: get returns the entity as saved, the instance holds as many
\* comments as before, and every other comment is stored as before.
C6_ReplaceOverwrites ==
    [][(/\ op'.name = "comment.save" /\ res'.err = NoErr
        /\ Deref(op'.arg).ID \in StoredIds(db, op'.kind, op'.key)) =>
          LET kind == op'.kind
              key == op'.key
              id == Deref(op'.arg).ID
              g == commentableGet(db', kind, key, id)
          IN /\ g.err = NoErr
             /\ g.c = op'.arg
             /\ res'.c = op'.arg
             /\ Cardinality(StoredIds(db', kind, key))
                   = Cardinality(StoredIds(db, kind, key))
             /\ OthersUnchanged(kind, key, id)]_vars

\* a comment created by add was overwritten on an instance that holds
\* another comment
C6_Witness ==
    /\ op.name = "comment.save" /\ res.err = NoErr
    /\ op.pre.record
    /\ <<op.kind, op.key, Deref(op.arg).ID>> \in created
    /\ Cardinality(StoredIds(db, op.kind, op.key)) >= 2

(***************************************************************************)
(* The comment service: PATCH /{type}/{key}/comments/{commentKey}.  The    *)
(* request passes the verifier and the validator, then handleUpdate reads  *)
(* the comment in one transaction and saves it in another; requests are    *)
(* served concurrently, so other calls can commit between the two.  The    *)
(* reads are taken as one step: nothing removes a type or an instance      *)
(* bucket, so a check that passed still passes when the comment is read.   *)
(***************************************************************************)
commentIsInvalid == "comment could not be parsed"
commentNotFoundErr == "comment not found"
commentSaveErr == "comment could not be saved"

\* service.handleUpdate: cmt.Value = co.Value
updateComment(cmt, co) == [cmt EXCEPT !.Value = co.Value]

\* a request answered with a message; ops counts the calls of the attachment
\* (get, list, add, save, remove) the handler has made
Rejected(code, msg) ==
    [done |-> TRUE, code |-> code, body |-> MsgBody(msg), cmt |-> NilPtr,
     ops |-> 0]

\* verifier, validator, and handleUpdate up to the comment it will save
handleUpdateRead(d, kind, key, cKey, payload) ==
    IF ~verify(d, kind)
    THEN Rejected(StatusNotAcceptable, Errorf1(commentableTypeNotFoundFmt, kind))
    ELSE IF ~exists(d, kind, key)
    THEN Rejected(StatusNotFound, Errorf2(commentableNotFoundFmt, kind, key))
    ELSE LET co == UnmarshalComment(payload, ZeroComment)
         IN IF co.err # NoErr \/ co.c.Value = ""
            THEN Rejected(StatusBadRequest, commentIsInvalid)
            ELSE LET g == commentableGet(d, kind, key, cKey)
                 IN IF g.err # NoErr
                    THEN [Rejected(StatusBadRequest, commentNotFoundErr)
                             EXCEPT !.ops = 1]
                    ELSE [done |-> FALSE, code |-> 0, body |-> <<>>,
                          cmt |-> Ptr(updateComment(Deref(g.c), co.c)),
                          ops |-> 1]

\* service.handleUpdate from c.save on.  On an error the handler has written
\* the 500 response when it logs cmt.Value, cmt being the nil save returned.
handleUpdateRespond(s) ==
    IF s.err # NoErr
    THEN [db |-> s.db, code |-> StatusInternalServerError,
          body |-> MsgBody(commentSaveErr), panicked |-> s.c = NilPtr]
    ELSE [db |-> s.db, code |-> StatusOK,
          body |-> MarshalComment(Deref(s.c)), panicked |-> FALSE]

\* service.handleUpdate: cmt, err = c.save(cmt), and the response
handleUpdateWrite(d, kind, key, cmt) ==
    handleUpdateRespond(commentableSave(d, kind, key, cmt))

\* the bodies of the PATCH requests: a text, a text with an identifier, an
\* empty text, and one that does not parse
UpdatePayloads ==
    {<< <<"value", Quote("bar")>> >>,
     << <<"id", Quote(ClientIds[2])>>, <<"value", Quote("foo")>> >>,
     << <<"value", Quote("")>> >>,
     << <<"value", <<"\"", "ba">> >> >>}

UpdateRead(kind, key, cKey, payload) ==
    LET r == handleUpdateRead(db, kind, key, cKey, payload)
    IN /\ upd = NoUpd
       /\ IF r.done
          THEN /\ op' = CommentOp("PATCH", kind, key, <<cKey, payload>>, cKey)
               /\ res' = [NoRes EXCEPT !.code = r.code, !.body = r.body]
               /\ UNCHANGED upd
          ELSE /\ upd' = [kind |-> kind, key |-> key, cKey |-> cKey,
                          payload |-> payload, cmt |-> r.cmt]
               /\ UNCHANGED <<op, res>>
       /\ UNCHANGED <<db, pc, req, writer, txroot, resp, guid, created>>

UpdateWrite ==
    /\ upd # NoUpd
    /\ LET w == handleUpdateWrite(db, upd.kind, upd.key, upd.cmt)
       IN /\ db' = w.db
          /\ op' = CommentOp("PATCH", upd.kind, upd.key,
                             <<upd.cKey, upd.payload>>, upd.cKey)
          /\ res' = [NoRes EXCEPT !.code = w.code, !.body = w.body,
                                  !.panicked = w.panicked]
    /\ upd' = NoUpd
    /\ UNCHANGED <<pc, req, writer, txroot, resp, guid, created>>

NextUpdate ==
    \/ \E t \in Targets : \E cKey \in NamedIds(t[1], t[2]) :
          \E payload \in UpdatePayloads : UpdateRead(t[1], t[2], cKey, payload)
    \/ UpdateWrite
    \/ \E t \in Targets, cp \in NewComments : CommentAdd(t[1], t[2], cp)
    \/ \E t \in Targets : \E cKey \in NamedIds(t[1], t[2]) :
          CommentRemove(t[1], t[2], cKey)
    \/ \E t \in Targets : Ensure(t[1], t[2])

SpecUpdate == Init /\ [][NextUpdate]_vars

\* every entry of every comments bucket holds a record whose identifier is
\* the key it is stored under
KeyedById(d) ==
    \A t \in Targets : \A k \in StoredIds(d, t[1], t[2]) :
        LET u == UnmarshalComment(StoredComments(d, t[1], t[2])[k][2], ZeroComment)
        IN u.err = NoErr /\ u.c.ID = k

\* a PATCH answered 200 stored the text of its body under the identifier of
\* its path, whatever identifier the body carried
UpdateIgnoresBodyId ==
    (op'.name = "PATCH" /\ res'.code = StatusOK /\ upd # NoUpd) =>
        LET now == Comment(upd.cKey, UnmarshalComment(upd.payload, ZeroComment).c.Value)
        IN /\ res'.body = MarshalComment(now)
           /\ StoredComments(db', upd.kind, upd.key)[upd.cKey][2] = MarshalComment(now)

\* C7: the identifier of a stored comment never changes: in every state each
\* entry of a comments bucket is stored under the identifier inside its
\* record, and an update replaces only the value, ignoring an identifier in
\* its body, so updates leave the set of stored identifiers unchanged.
C7_IdentifierImmutable ==
    [][/\ KeyedById(db) /\ KeyedById(db')
       /\ UpdateIgnoresBodyId
       /\ op'.name = "PATCH" =>
             \A t \in Targets :
                StoredIds(db', t[1], t[2]) = StoredIds(db, t[1], t[2])]_vars

\* the part of C7 that does not depend on what commits between the two
\* transactions of an update
C7_KeysAreRecordIds ==
    [][KeyedById(db) /\ KeyedById(db') /\ UpdateIgnoresBodyId]_vars

\* the instance has a comments bucket
HasComments(d, kind, key) ==
    exists(d, kind, key)
    /\ HasBucket(SubBucket(SubBucket(d, kind), key), commentsKey)

\* C11: list on an instance that exists and has no comments bucket returns an
\* empty sequence and no error, and leaves the instance without a comments
\* bucket.
C11_ListWithoutBucketIsEmpty ==
    [][(/\ op'.name = "comment.list"
        /\ exists(db, op'.kind, op'.key)
        /\ ~HasComments(db, op'.kind, op'.key)) =>
          /\ res'.err = NoErr
          /\ res'.list = Ptr(<<>>)
          /\ ~HasComments(db', op'.kind, op'.key)
          /\ db' = db]_vars

\* list answered for an instance that exists without a comments bucket
C11_Witness ==
    /\ op.name = "comment.list"
    /\ op.pre.instance
    /\ ~HasComments(db, op.kind, op.key)
    /\ res.list = Ptr(<<>>)

\* C12: list returns exactly the comments stored for the instance, each once
\* with its stored identifier and value, in ascending order of their keys.
C12_ListIsStoredInKeyOrder ==
    (op.name = "comment.list" /\ res.err = NoErr) =>
        /\ res.list # NilPtr
        /\ LET l == Deref(res.list)
               st == StoredComments(db, op.kind, op.key)
           IN /\ Len(l) = Cardinality(DOMAIN st)
              /\ \A k \in DOMAIN st :
                    \E i \in DOMAIN l :
                       l[i].ID = k /\ MarshalComment(l[i]) = st[k][2]
              /\ \A i, j \in DOMAIN l : i < j => KeyLess(l[i].ID, l[j].ID)

\* list answered with a generated and a client-chosen identifier stored,
\* after a comment created earlier was removed
C12_Witness ==
    /\ op.name = "comment.list" /\ res.err = NoErr
    /\ Len(Deref(res.list)) >= 2
    /\ ClientIds[1] \in StoredIds(db, op.kind, op.key)
    /\ \E t \in created : t[3] \notin StoredIds(db, op.kind, op.key)

commentableSaveErr == "could not provision comments"

Answer(d, g, code, body) ==
    [db |-> d, guid |-> g, code |-> code, body |-> body, panicked |-> FALSE]

\* service.handleAdd: err != nil || co.Value == ""
addInvalidParseOnly(co) == co.err # NoErr
addInvalid(co) == co.err # NoErr \/ co.c.Value = ""

\* service.handleAdd.  On an error of add the handler has written the 500
\* response when it logs co.Value, co being the nil add returned.
handleAddRespond(a) ==
    IF a.err # NoErr
    THEN [db |-> a.db, guid |-> a.guid,
          code |-> StatusInternalServerError,
          body |-> MsgBody(commentSaveErr),
          panicked |-> a.c = NilPtr]
    ELSE Answer(a.db, a.guid, StatusOK, MarshalComment(Deref(a.c)))

\* service.handleAdd: decode the body, reject it or add the comment
handleAdd(d, g, kind, key, payload) ==
    LET co == UnmarshalComment(payload, ZeroComment)
    IN IF addInvalid(co)
       THEN Answer(d, g, StatusBadRequest, MsgBody(commentIsInvalid))
       ELSE handleAddRespond(commentableAdd(d, g, kind, key, Ptr(co.c)))

\* POST without the creator: verifier, validator, then handleAdd
serveAddNoCreator(d, g, kind, key, payload) ==
    IF ~verify(d, kind)
    THEN Answer(d, g, StatusNotAcceptable,
                MsgBody(Errorf1(commentableTypeNotFoundFmt, kind)))
    ELSE IF ~exists(d, kind, key)
    THEN Answer(d, g, StatusNotFound,
                MsgBody(Errorf2(commentableNotFoundFmt, kind, key)))
    ELSE handleAdd(d, g, kind, key, payload)

\* POST: verifier, creator, validator, then handleAdd
serveAdd(d, g, kind, key, payload) ==
    IF ~verify(d, kind)
    THEN Answer(d, g, StatusNotAcceptable,
                MsgBody(Errorf1(commentableTypeNotFoundFmt, kind)))
    ELSE LET en == ensure(d, kind, key)
         IN IF en.err # NoErr
            THEN Answer(en.db, g, StatusNotAcceptable, MsgBody(commentableSaveErr))
            ELSE IF ~exists(en.db, kind, key)
            THEN Answer(en.db, g, StatusNotFound,
                        MsgBody(Errorf2(commentableNotFoundFmt, kind, key)))
            ELSE handleAdd(en.db, g, kind, key, payload)

AddRequest(kind, key, payload) ==
    LET r == serveAdd(db, guid, kind, key, payload)
    IN /\ r.guid <= MaxCreates
       /\ db' = r.db
       /\ guid' = r.guid
       /\ created' = IF r.code = StatusOK
                     THEN created \cup {<<kind, key,
                                          UnmarshalComment(r.body, ZeroComment).c.ID>>}
                     ELSE created
       /\ op' = CommentOp("POST", kind, key, payload, "")
       /\ res' = [NoRes EXCEPT !.code = r.code, !.body = r.body,
                               !.panicked = r.panicked]
       /\ UNCHANGED <<pc, req, writer, txroot, resp, upd>>

\* the comment service's POST and PATCH requests, served concurrently
NextHttp ==
    \/ \E kind \in Kinds, key \in RouteKeys, payload \in UpdatePayloads :
          AddRequest(kind, key, payload)
    \/ \E kind \in Kinds, key \in RouteKeys :
          \E cKey \in NamedIds(kind, key) :
             \E payload \in UpdatePayloads : UpdateRead(kind, key, cKey, payload)
    \/ UpdateWrite

SpecHttp == Init /\ [][NextHttp]_vars

\* every stored comment has a text that is not empty
NonEmptyValues(d) ==
    \A kind \in Kinds, key \in RouteKeys :
        \A k \in StoredIds(d, kind, key) :
            UnmarshalComment(StoredComments(d, kind, key)[k][2], ZeroComment).c.Value # ""

\* the bodies that carry an empty text or do not parse
InvalidPayloads ==
    {<< <<"value", Quote("")>> >>, << <<"value", <<"\"", "ba">> >> >>}

\* the body of the request that led to the next state
PayloadOf(o) == IF o.name = "PATCH" THEN o.arg[2] ELSE o.arg

\* C14: under POST and PATCH requests every stored comment has a text that
\* is not empty: a request whose text is empty or whose body does not parse
\* is never answered 200, is answered 400 once it is past the checks of the
\* type and the instance, and leaves the stored comments as they were.
C14_StoredValuesNonEmpty ==
    [][/\ NonEmptyValues(db')
       /\ (op'.name \in {"POST", "PATCH"} /\ PayloadOf(op') \in InvalidPayloads) =>
             /\ res'.code \in {StatusBadRequest, StatusNotFound, StatusNotAcceptable}
             /\ (op'.pre.type /\ (op'.name = "POST" \/ op'.pre.instance))
                   => res'.code = StatusBadRequest
             /\ \A kind \in Kinds, key \in RouteKeys :
                   StoredComments(db', kind, key) = StoredComments(db, kind, key)]_vars

\* a PATCH with an empty text for a stored comment was answered 400
C14_Witness ==
    /\ op.name = "PATCH"
    /\ op.arg[2] = << <<"value", Quote("")>> >>
    /\ op.pre.record
    /\ res.code = StatusBadRequest

\* C15: save fails with the type-not-found error when the type bucket is
\* absent and with the instance-not-found error when the type exists and the
\* instance bucket is absent; it never creates the instance, and on either
\* failure the store is as it was.
C15_SaveNeedsTypeAndInstance ==
    [][(op'.name = "comment.save" /\ op'.arg # NilPtr) =>
          LET kind == op'.kind
              key == op'.key
          IN /\ ~HasBucket(db, kind) =>
                   /\ res'.err = Errorf1(commentableTypeNotFoundFmt, kind)
                   /\ db' = db
             /\ (HasBucket(db, kind) /\ ~exists(db, kind, key)) =>
                   /\ res'.err = Errorf2(commentableNotFoundFmt, key, kind)
                   /\ db' = db
             /\ exists(db', kind, key) => exists(db, kind, key)
             /\ HasBucket(db', kind) => HasBucket(db, kind)]_vars

\* save failed for an instance that was absent under a provisioned type, and
\* the instance is still absent
C15_Witness ==
    /\ op.name = "comment.save" /\ op.arg # NilPtr
    /\ op.key # ""
    /\ op.pre.type /\ ~op.pre.instance
    /\ res.err = Errorf2(commentableNotFoundFmt, op.key, op.kind)
    /\ ~exists(db, op.kind, op.key)

\* C16: a read-write operation that fails commits nothing.  When save fails
\* with the key-required error on an instance without a comments bucket, the
\* bucket save created in its transaction is discarded: the instance has no
\* comments bucket afterwards, get reports the comment not found and list
\* returns the empty sequence.
C16_FailedWriteCommitsNothing ==
    [][/\ (/\ op'.name \in {"comment.save", "comment.add", "comment.remove", "ensure"}
           /\ res'.err # NoErr) => db' = db
       /\ (/\ op'.name = "comment.save" /\ op'.arg # NilPtr
           /\ Deref(op'.arg).ID = ""
           /\ exists(db, op'.kind, op'.key)
           /\ ~HasComments(db, op'.kind, op'.key)) =>
             LET kind == op'.kind
                 key == op'.key
                 l == commentableList(db', kind, key)
             IN /\ res'.err = ErrKeyRequired
                /\ ~HasComments(db', kind, key)
                /\ \A id \in {"", ClientIds[1]} :
                      commentableGet(db', kind, key, id).err
                         = Errorf3(commentNotFoundFmt, id, kind, key)
                /\ l.err = NoErr /\ l.list = Ptr(<<>>)]_vars

\* save of an entity without identifier failed on an instance that has no
\* comments bucket
C16_Witness ==
    /\ op.name = "comment.save" /\ op.arg # NilPtr
    /\ Deref(op.arg).ID = ""
    /\ op.pre.instance
    /\ res.err = ErrKeyRequired
    /\ ~HasComments(db, op.kind, op.key)

\* C17: on an instance that exists without a comments bucket, get and remove
\* fail with their comment-not-found errors; get also fails with it when the
\* bucket exists and holds no entry for the identifier; none of these calls
\* changes the store.
C17_MissingCommentIsNotFound ==
    [][/\ (/\ op'.name = "comment.get"
           /\ exists(db, op'.kind, op'.key)
           /\ op'.arg \notin StoredIds(db, op'.kind, op'.key)) =>
             /\ res'.c = NilPtr
             /\ res'.err = Errorf3(commentNotFoundFmt, op'.arg, op'.kind, op'.key)
             /\ db' = db
       /\ (/\ op'.name = "comment.remove"
           /\ exists(db, op'.kind, op'.key)
           /\ ~HasComments(db, op'.kind, op'.key)) =>
             /\ res'.err = Errorf3(removeNotFoundFmt, op'.arg, op'.kind, op'.key)
             /\ db' = db]_vars

\* get failed for an identifier that a comments bucket holding other
\* comments does not hold
C17_Witness ==
    /\ op.name = "comment.get"
    /\ HasComments(db, op.kind, op.key)
    /\ StoredIds(db, op.kind, op.key) # {}
    /\ op.arg \notin StoredIds(db, op.kind, op.key)
    /\ res.err = Errorf3(commentNotFoundFmt, op.arg, op.kind, op.key)

\* remove failed on an instance that has no comments bucket
C17_WitnessRemove ==
    /\ op.name = "comment.remove"
    /\ op.pre.instance
    /\ ~HasComments(db, op.kind, op.key)
    /\ res.err = Errorf3(removeNotFoundFmt, op.arg, op.kind, op.key)

\* C18: remove of an identifier that an existing comments bucket does not
\* hold returns no error and leaves every stored comment as it was.
C18_RemoveAbsentSucceeds ==
    [][(/\ op'.name = "comment.remove"
        /\ HasComments(db, op'.kind, op'.key)
        /\ op'.arg \notin StoredIds(db, op'.kind, op'.key)) =>
          /\ res'.err = NoErr
          /\ StoredComments(db', op'.kind, op'.key)
                = StoredComments(db, op'.kind, op'.key)
          /\ db' = db]_vars

\* remove of an identifier that is not stored succeeded on an instance that
\* holds comments
C18_Witness ==
    /\ op.name = "comment.remove"
    /\ ~op.pre.record
    /\ res.err = NoErr
    /\ StoredIds(db, op.kind, op.key) # {}

\* C19: add and save return a nil comment exactly when they return an error;
\* on a failure nothing is stored, on success the comment returned is the
\* one stored.
C19_NilCommentIffError ==
    [][op'.name \in {"comment.add", "comment.save"} =>
          /\ res'.c = NilPtr <=> res'.err # NoErr
          /\ res'.err # NoErr => db' = db
          /\ res'.err = NoErr =>
                /\ res'.c # NilPtr
                /\ StoredComments(db', op'.kind, op'.key)[Deref(res'.c).ID][2]
                      = MarshalComment(Deref(res'.c))]_vars

\* add of a comment failed for an instance that is absent under a
\* provisioned type, and returned nil
C19_Witness ==
    /\ op.name = "comment.add" /\ op.arg # NilPtr
    /\ op.pre.type /\ ~op.pre.instance
    /\ res.err # NoErr /\ res.c = NilPtr

\* what ensure does when the resource type is absent, and when the instance
\* is already there
EnsureTypeAndExisting ==
    /\ ~HasBucket(db, op'.kind) =>
          /\ res'.err = Errorf1("resource '%s' does not exist", op'.kind)
          /\ ~HasBucket(db', op'.kind)
          /\ db' = db
    /\ HasInstance(db, op'.kind, op'.key) =>
          /\ res'.err = NoErr
          /\ db' = db

\* C20 as stated: ensure fails with the resource type's not-found error and
\* creates no type when the type is absent; otherwise the instance exists
\* afterwards; for an instance that exists it succeeds and changes nothing.
C20_EnsureInstanceExists ==
    [][op'.name = "ensure" =>
          /\ EnsureTypeAndExisting
          /\ HasBucket(db, op'.kind) =>
                /\ res'.err = NoErr
                /\ HasInstance(db', op'.kind, op'.key)]_vars

\* C20, amended: as stated when the instance key is not empty; under a
\* provisioned type an empty instance key fails with bolt's
\* ErrBucketNameRequired and creates nothing. A second call changes nothing
\* and ends as the first did.
C20_EnsureNamedInstanceExists ==
    [][op'.name = "ensure" =>
          /\ EnsureTypeAndExisting
          /\ (HasBucket(db, op'.kind) /\ op'.key # "") =>
                /\ res'.err = NoErr
                /\ HasInstance(db', op'.kind, op'.key)
          /\ (HasBucket(db, op'.kind) /\ op'.key = "") =>
                /\ res'.err = ErrBucketNameRequired
                /\ ~HasInstance(db', op'.kind, op'.key)
                /\ db' = db
          /\ ensure(db', op'.kind, op'.key) = [db |-> db', err |-> res'.err]]_vars

\* ensure succeeded for an instance that already held comments
C20_Witness ==
    /\ op.name = "ensure"
    /\ op.pre.instance
    /\ res.err = NoErr
    /\ StoredIds(db, op.kind, op.key) # {}

(***************************************************************************)
(* Provisioning: setup, verify, exists, ensure and the rating merge on a   *)
(* database that starts empty, as bolt.Open leaves a new file.             *)
(***************************************************************************)
\* the longest list of names a call of setup is given
MaxNames == 2
\* the names of the resource types a call of setup is given
TypeNames == {"books", "films", ""}
RECURSIVE NameLists(_)
NameLists(n) ==
    IF n = 0 THEN {<<>>}
    ELSE NameLists(n - 1)
            \cup {Append(l, name) : l \in {x \in NameLists(n - 1) : Len(x) = n - 1},
                                    name \in TypeNames}
\* the ratings merged
SetupDeltas == {Uniform(1)}

InitSetup ==
    /\ db = EmptyBucket
    /\ op = NoOp
    /\ res = NoRes
    /\ Idle
    /\ Fresh

Setup(cmts) ==
    LET s == setup(db, cmts)
    IN /\ db' = s.db
       /\ op' = Op("setup", "", "", cmts)
       /\ res' = [NoRes EXCEPT !.err = s.err]
       /\ UNCHANGED <<pc, req, writer, txroot, resp, guid, created, upd>>

Verify(kind) ==
    /\ op' = Op("verify", kind, "", <<>>)
    /\ res' = [NoRes EXCEPT !.found = verify(db, kind)]
    /\ UNCHANGED <<db, pc, req, writer, txroot, resp, guid, created, upd>>

NextSetup ==
    \/ \E cmts \in NameLists(MaxNames) : Setup(cmts)
    \/ \E kind \in TypeNames : Verify(kind)
    \/ \E kind \in Kinds, key \in Keys : Exists(kind, key)
    \/ \E kind \in Kinds, key \in Keys : Ensure(kind, key)
    \/ \E kind \in Kinds, key \in Keys, rt \in SetupDeltas : Save(kind, key, rt)

SpecSetup == InitSetup /\ [][NextSetup]_vars

\* C21: verify(kind) is true exactly when a top-level bucket named kind is
\* present, exists() is true exactly when the bucket of the type and, in it,
\* the bucket of the instance are present; neither returns an error nor
\* changes the database.
C21_ExistenceQueriesExactAndPure ==
    [][/\ op'.name = "verify" =>
             /\ res'.found = (op'.kind \in DOMAIN db /\ IsBucketEntry(db[op'.kind]))
             /\ res'.err = NoErr
             /\ db' = db
       /\ op'.name = "comment.exists" =>
             /\ res'.found = (/\ HasBucket(db, op'.kind)
                              /\ HasBucket(SubBucket(db, op'.kind), op'.key))
             /\ res'.err = NoErr
             /\ db' = db]_vars

\* exists answered false for an instance that is absent under a type that
\* is present
C21_Witness ==
    /\ op.name = "comment.exists"
    /\ HasBucket(db, op.kind)
    /\ op.key # ""
    /\ ~res.found

\* the names a call of setup was given
NamesOf(o) == {o.arg[i] : i \in 1..Len(o.arg)}

\* C22: setup is all-or-nothing: when it returns an error none of the
\* buckets it names has been created, wherever the failing name stands in
\* the list; when it returns no error a top-level bucket exists for every
\* name.
C22_SetupAllOrNothing ==
    [][op'.name = "setup" =>
          /\ res'.err # NoErr =>
                \A name \in NamesOf(op') : HasBucket(db', name) => HasBucket(db, name)
          /\ res'.err = NoErr =>
                \A name \in NamesOf(op') : HasBucket(db', name)]_vars

\* setup failed at its second name, and the bucket of the first one, absent
\* before, is absent afterwards
C22_Witness ==
    /\ op.name = "setup"
    /\ Len(op.arg) >= 2 /\ op.arg[1] # "" /\ op.arg[2] = ""
    /\ res.err # NoErr
    /\ ~HasBucket(db, op.arg[1])

\* the names setup went through before a name it fails at
BeforeFailing(cmts) ==
    {cmts[i] : i \in {j \in 1..Len(cmts) : \E k \in j + 1..Len(cmts) : cmts[k] = ""
                                           /\ \A m \in 1..j : cmts[m] # ""}}

\* C23 as stated: when setup fails at some name, the buckets of the names
\* before it have been committed and are present afterwards.
C23_SetupCommitsPrefix ==
    [][(op'.name = "setup" /\ res'.err # NoErr) =>
          \A name \in BeforeFailing(op'.arg) : HasBucket(db', name)]_vars

\* C23, amended: setup given an empty name fails with bolt's
\* ErrBucketNameRequired and commits nothing: the buckets of the names before
\* the failing one are rolled back with the transaction, and the database is
\* as it was before the call.
C23_SetupFailureRollsBack ==
    [][(op'.name = "setup" /\ "" \in NamesOf(op')) =>
          /\ res'.err = ErrBucketNameRequired
          /\ db' = db
          /\ \A name \in BeforeFailing(op'.arg) : HasBucket(db', name) = HasBucket(db, name)]_vars

\* setup failed after a name whose bucket was absent, in a database that
\* holds another type
C23_Witness ==
    /\ op.name = "setup"
    /\ res.err = ErrBucketNameRequired
    /\ \E name \in BeforeFailing(op.arg) : ~HasBucket(db, name)
    /\ DOMAIN db # {}

\* C24: creating a bucket with the empty name fails with bolt's
\* ErrBucketNameRequired and changes nothing: ensure with the empty key and a
\* rating merge with the empty key, under a type that is present, and setup
\* with an empty name, each return that error and leave the database as it
\* was.  Under a type that is absent ensure and the merge fail before they
\* create anything.
C24_EmptyNameIsRefused ==
    [][/\ (op'.name \in {"ensure", "save"} /\ op'.key = "") =>
             /\ res'.err = IF HasBucket(db, op'.kind) THEN ErrBucketNameRequired
                           ELSE IF op'.name = "save"
                                THEN Errorf1(rateableTypeNotFoundFmt, op'.kind)
                                ELSE Errorf1("resource '%s' does not exist", op'.kind)
             /\ res'.rt = NilPtr
             /\ db' = db
       /\ (op'.name = "setup" /\ "" \in NamesOf(op')) =>
             /\ res'.err = ErrBucketNameRequired
             /\ db' = db]_vars

\* a rating merge with the empty key was refused under a type that holds an
\* instance
C24_Witness ==
    /\ op.name = "save"
    /\ op.key = ""
    /\ HasBucket(db, op.kind) /\ DOMAIN SubBucket(db, op.kind) # {}
    /\ res.err = ErrBucketNameRequired

\* C25: the rating fetch fails with the type's not-found error when the
\* bucket of the type is absent and with the instance's not-found error when
\* the type is present and the bucket of the instance is absent; it creates
\* nothing, so a GET of the ratings of an instance never written, under a
\* type that is present, is answered 400 with the fetch error, not with
\* zeros, and the instance is still absent afterwards.
C25_FetchOfAbsentFails ==
    [][/\ (op'.name = "get" /\ ~HasBucket(db, op'.kind)) =>
             /\ res'.err = Errorf1(rateableTypeNotFoundFmt, op'.kind)
             /\ res'.rt = NilPtr
       /\ (op'.name = "get" /\ HasBucket(db, op'.kind)
             /\ ~HasInstance(db, op'.kind, op'.key)) =>
             /\ res'.err = Errorf2(rateableNotFoundFmt, op'.kind, op'.key)
             /\ res'.rt = NilPtr
       /\ (op'.name = "GET" /\ HasBucket(db, op'.kind)
             /\ ~HasInstance(db, op'.kind, op'.key)) =>
             /\ res'.code = StatusBadRequest
             /\ res'.body = MsgBody(ratingFetchErr)
             /\ res'.body # Marshal(ZeroRating)
       /\ (op'.name \in {"get", "GET"} /\ ~HasInstance(db, op'.kind, op'.key)) =>
             /\ db' = db
             /\ ~HasInstance(db', op'.kind, op'.key)]_vars

\* a GET of the ratings of an instance that is absent under a type that is
\* present was answered 400
C25_Witness ==
    /\ op.name = "GET"
    /\ op.pre.type /\ ~op.pre.instance
    /\ res.code = StatusBadRequest
    /\ ~HasInstance(db, op.kind, op.key)

(***************************************************************************)
(* The comment service, its requests served concurrently.  A request runs  *)
(* the verifier and the validator (POST: the verifier, the creator and the *)
(* validator) and then its handler.  handleAdd, handleGet and handleList   *)
(* call the attachment once; handleRemove and handleUpdate call get and,   *)
(* in a second transaction, remove or save, and other requests commit      *)
(* between the two.  Nothing removes a type or an instance, so the checks  *)
(* and the first call of the handler are taken as one step.                *)
(***************************************************************************)
commentDeleteErr == "comment could not be deleted"

\* a request answered with a payload
Replied(code, body, ops) ==
    [done |-> TRUE, code |-> code, body |-> body, cmt |-> NilPtr, ops |-> ops]

\* service.handleGet of the comment service
commentHandleGet(d, kind, key, cKey) ==
    LET g == commentableGet(d, kind, key, cKey)
    IN IF g.err # NoErr
       THEN [Rejected(StatusBadRequest, commentNotFoundErr) EXCEPT !.ops = 1]
       ELSE Replied(StatusOK, MarshalComment(Deref(g.c)), 1)

\* service.handleList: the payload, {"comments": [...]}
listPayload(list) ==
    << <<"comments", IF list = NilPtr THEN <<>>
                     ELSE [i \in 1..Len(Deref(list)) |->
                              MarshalComment(Deref(list)[i])]>> >>

\* service.handleList: after the 500 of a failed list the handler goes on to
\* write the payload; the status stays the one written first
handleListRespond(l) ==
    IF l.err # NoErr
    THEN Replied(StatusInternalServerError,
                 MsgBody(Errorf1("error fetching comments: %v", l.err))
                     \o listPayload(l.list), 1)
    ELSE Replied(StatusOK, listPayload(l.list), 1)

\* service.handleList: data.Comments, err = c.list(), and the response
handleList(d, kind, key) == handleListRespond(commentableList(d, kind, key))

\* service.handleRemove up to the comment it will remove
handleRemoveRead(d, kind, key, cKey) ==
    LET g == commentableGet(d, kind, key, cKey)
    IN IF g.err # NoErr
       THEN [Rejected(StatusBadRequest, commentNotFoundErr) EXCEPT !.ops = 1]
       ELSE [done |-> FALSE, code |-> 0, body |-> <<>>, cmt |-> g.c, ops |-> 1]

\* service.handleRemove from c.remove on
handleRemoveWrite(d, kind, key, cmt) ==
    LET r == commentableRemove(d, kind, key, Deref(cmt).ID)
    IN IF r.err # NoErr
       THEN [db |-> r.db, code |-> StatusInternalServerError,
             body |-> MsgBody(commentDeleteErr)]
       ELSE [db |-> r.db, code |-> StatusOK,
             body |-> MsgBody(Errorf2("successfully deleted %s comment with id: %s",
                                      kind, Deref(cmt).ID))]

\* service.validator: the response when the instance does not exist
validatorReject(kind, key) ==
    Rejected(StatusNotFound, Errorf2(commentableNotFoundFmt, kind, key))

\* the routes with the validator put before the verifier
serveCommentKeyFirst(d, method, kind, key, cKey, payload) ==
    IF ~exists(d, kind, key) THEN validatorReject(kind, key)
    ELSE IF method = "GET" THEN commentHandleGet(d, kind, key, cKey)
    ELSE IF method = "LIST" THEN handleList(d, kind, key)
    ELSE IF method = "DELETE" THEN handleRemoveRead(d, kind, key, cKey)
    ELSE handleUpdateRead(d, kind, key, cKey, payload)

\* GET, list, DELETE and PATCH: verifier, validator, then the handler up to
\* its answer or to the second call it makes
serveComment(d, method, kind, key, cKey, payload) ==
    IF ~verify(d, kind)
    THEN Rejected(StatusNotAcceptable, Errorf1(commentableTypeNotFoundFmt, kind))
    ELSE IF ~exists(d, kind, key) THEN validatorReject(kind, key)
    ELSE IF method = "GET" THEN commentHandleGet(d, kind, key, cKey)
    ELSE IF method = "LIST" THEN handleList(d, kind, key)
    ELSE IF method = "DELETE" THEN handleRemoveRead(d, kind, key, cKey)
    ELSE handleUpdateRead(d, kind, key, cKey, payload)

\* the instances the requests name: b1, which a POST creates, and b2, which
\* no request creates
ServeKeys == RouteKeys \cup {"b2"}
\* the bodies of the requests: a text, and an empty text
PostPayloads == {<< <<"value", Quote("foo")>> >>, << <<"value", Quote("")>> >>}
PatchPayloads == {<< <<"value", Quote("bar")>> >>, << <<"value", Quote("")>> >>}
\* the identifiers a request names: the stored ones, the ones that were
\* stored, and one never generated
ServeIds(kind, key) ==
    NamedIds(kind, key) \cup {c[3] : c \in {x \in created : x[1] = kind /\ x[2] = key}}

\* no request is between its two calls
NoCall ==
    [method |-> "", kind |-> "", key |-> "", cKey |-> "", payload |-> <<>>,
     cmt |-> NilPtr, pre |-> [type |-> FALSE, instance |-> FALSE, record |-> FALSE],
     beaten |-> FALSE]

\* what the database held for the request when it arrived
Pre(kind, key, cKey) ==
    [type |-> HasBucket(db, kind), instance |-> exists(db, kind, key),
     record |-> cKey \in StoredIds(db, kind, key)]

\* no request has been answered
NoServed ==
    [name |-> "", kind |-> "", key |-> "", arg |-> <<"", <<>>>>,
     pre |-> NoCall.pre, held |-> FALSE, ops |-> 0, beaten |-> FALSE,
     turn |-> 0]

\* the request answered last: what it named, what the database held when it
\* arrived (pre) and whether it held the comment when the answer was
\* written (held), the calls of the attachment it made (ops), whether a
\* DELETE of the same comment was answered 200 while it was between its two
\* calls (beaten), and the parity of the number of requests answered (turn)
Served(method, kind, key, cKey, payload, pre, ops, beaten) ==
    [name |-> method, kind |-> kind, key |-> key, arg |-> <<cKey, payload>>,
     pre |-> pre, held |-> cKey \in StoredIds(db, kind, key),
     ops |-> ops, beaten |-> beaten, turn |-> 1 - op.turn]

\* the step answers a request
Answers == op'.turn # op.turn

InitServe ==
    /\ db = setup(EmptyBucket, commentables).db
    /\ op = NoServed
    /\ res = NoRes
    /\ Fresh
    /\ pc = [p \in Procs |-> "idle"]
    /\ req = [p \in Procs |-> NoCall]
    /\ txroot = <<>> /\ resp = <<>> /\ writer = NoProc

\* POST /{type}/{key}/comments
ServePost(kind, key, payload) ==
    LET r == serveAdd(db, guid, kind, key, payload)
    IN /\ r.guid <= MaxCreates
       /\ db' = r.db
       /\ guid' = r.guid
       /\ created' = IF r.code = StatusOK
                     THEN created \cup {<<kind, key,
                                          UnmarshalComment(r.body, ZeroComment).c.ID>>}
                     ELSE created
       /\ op' = Served("POST", kind, key, "", payload, Pre(kind, key, ""),
                       r.guid - guid, FALSE)
       /\ res' = [NoRes EXCEPT !.code = r.code, !.body = r.body,
                               !.panicked = r.panicked]
       /\ UNCHANGED <<pc, req, writer, txroot, resp, upd>>

\* GET /{type}/{key}/comments/{commentKey} and GET /{type}/{key}/comments
ServeRead(method, kind, key, cKey) ==
    LET r == serveComment(db, method, kind, key, cKey, <<>>)
    IN /\ op' = Served(method, kind, key, cKey, <<>>, Pre(kind, key, cKey),
                       r.ops, FALSE)
       /\ res' = [NoRes EXCEPT !.code = r.code, !.body = r.body]
       /\ UNCHANGED <<db, pc, req, writer, txroot, resp, guid, created, upd>>

\* DELETE and PATCH /{type}/{key}/comments/{commentKey}: the checks, and the
\* handler up to the comment c.get returned
ServeBegin(p, method, kind, key, cKey, payload) ==
    LET r == serveComment(db, method, kind, key, cKey, payload)
    IN /\ pc[p] = "idle"
       /\ IF r.done
          THEN /\ op' = Served(method, kind, key, cKey, payload,
                               Pre(kind, key, cKey), r.ops, FALSE)
               /\ res' = [NoRes EXCEPT !.code = r.code, !.body = r.body]
               /\ UNCHANGED <<pc, req>>
          ELSE /\ pc' = [pc EXCEPT ![p] = "write"]
               /\ req' = [req EXCEPT ![p] =
                             [method |-> method, kind |-> kind, key |-> key,
                              cKey |-> cKey, payload |-> payload, cmt |-> r.cmt,
                              pre |-> Pre(kind, key, cKey), beaten |-> FALSE]]
               /\ UNCHANGED <<op, res>>
       /\ UNCHANGED <<db, writer, txroot, resp, guid, created, upd>>

\* the requests between their two calls that a DELETE answered 200 beats:
\* the other DELETEs of the same comment
Beaten(p, q) ==
    /\ q # p /\ pc[q] = "write" /\ req[q].method = "DELETE"
    /\ req[q].kind = req[p].kind /\ req[q].key = req[p].key
    /\ req[q].cKey = req[p].cKey

\* DELETE: handleRemove from c.remove on
DeleteWrite(p) ==
    /\ pc[p] = "write" /\ req[p].method = "DELETE"
    /\ LET w == handleRemoveWrite(db, req[p].kind, req[p].key, req[p].cmt)
       IN /\ db' = w.db
          /\ op' = Served("DELETE", req[p].kind, req[p].key, req[p].cKey, <<>>,
                          req[p].pre, 2, req[p].beaten)
          /\ res' = [NoRes EXCEPT !.code = w.code, !.body = w.body]
          /\ req' = [q \in Procs |->
                       IF q = p THEN NoCall
                       ELSE IF w.code = StatusOK /\ Beaten(p, q)
                       THEN [req[q] EXCEPT !.beaten = TRUE]
                       ELSE req[q]]
    /\ pc' = [pc EXCEPT ![p] = "idle"]
    /\ UNCHANGED <<writer, txroot, resp, guid, created, upd>>

\* PATCH: handleUpdate from c.save on
PatchWrite(p) ==
    /\ pc[p] = "write" /\ req[p].method = "PATCH"
    /\ LET w == handleUpdateWrite(db, req[p].kind, req[p].key, req[p].cmt)
       IN /\ db' = w.db
          /\ op' = Served("PATCH", req[p].kind, req[p].key, req[p].cKey,
                          req[p].payload, req[p].pre, 2, FALSE)
          /\ res' = [NoRes EXCEPT !.code = w.code, !.body = w.body,
                                  !.panicked = w.panicked]
    /\ req' = [req EXCEPT ![p] = NoCall]
    /\ pc' = [pc EXCEPT ![p] = "idle"]
    /\ UNCHANGED <<writer, txroot, resp, guid, created, upd>>

\* the goroutine that takes the next request: which one it is makes no
\* difference, so it is the first one that is idle
FirstIdle(p) == pc[p] = "idle" /\ \A q \in Procs : q < p => pc[q] # "idle"
\* no DELETE or PATCH is between its two calls
NoneBetween == \A q \in Procs : pc[q] = "idle"

\* the requests of the comment service; a DELETE or PATCH starts when no
\* other one is between its two calls, and POST, GET and list requests are
\* served between the two
NextServe ==
    \/ \E kind \in Kinds, key \in RouteKeys, payload \in PostPayloads :
          ServePost(kind, key, payload)
    \/ \E kind \in Kinds, key \in ServeKeys :
          \E cKey \in ServeIds(kind, key) : ServeRead("GET", kind, key, cKey)
    \/ \E kind \in Kinds, key \in ServeKeys : ServeRead("LIST", kind, key, "")
    \/ \E p \in Procs, kind \in Kinds, key \in ServeKeys :
          \E cKey \in ServeIds(kind, key) :
             /\ NoneBetween /\ FirstIdle(p)
             /\ ServeBegin(p, "DELETE", kind, key, cKey, <<>>)
    \/ \E p \in Procs, kind \in Kinds, key \in ServeKeys :
          \E cKey \in ServeIds(kind, key), payload \in PatchPayloads :
             /\ NoneBetween /\ FirstIdle(p)
             /\ ServeBegin(p, "PATCH", kind, key, cKey, payload)
    \/ \E p \in Procs : DeleteWrite(p)
    \/ \E p \in Procs : PatchWrite(p)

SpecServe == InitServe /\ [][NextServe]_vars

\* DELETE and PATCH requests for the comments of one instance, served
\* concurrently with each other and with the POSTs that create the comments
NextRace ==
    \/ \E key \in RouteKeys, payload \in PostPayloads :
          ServePost(commentables[2], key, payload)
    \/ \E p \in Procs, key \in RouteKeys :
          \E cKey \in ServeIds(commentables[2], key) :
             /\ FirstIdle(p)
             /\ ServeBegin(p, "DELETE", commentables[2], key, cKey, <<>>)
    \/ \E p \in Procs, key \in RouteKeys :
          \E cKey \in ServeIds(commentables[2], key), payload \in PatchPayloads :
             /\ FirstIdle(p)
             /\ ServeBegin(p, "PATCH", commentables[2], key, cKey, payload)
    \/ \E p \in Procs : DeleteWrite(p)
    \/ \E p \in Procs : PatchWrite(p)

SpecRace == InitServe /\ [][NextRace]_vars

\* C26: each request makes one call of the attachment, one transaction,
\* after its existence checks: no request has read in one transaction and
\* is yet to write or delete, depending on what it read, in a second one.
C26_OneOperationPerRequest ==
    /\ op.ops <= 1
    /\ \A p \in Procs : pc[p] # "write"

\* C29: a DELETE is answered 200 only if the store held the comment when its
\* remove was applied; of the DELETEs of one comment served concurrently at
\* most one is answered 200, and the others are answered comment-not-found.
C29_VerifyBeforeDelete ==
    op.name = "DELETE" =>
        /\ res.code = StatusOK => op.held
        /\ op.beaten =>
              /\ res.code = StatusBadRequest
              /\ res.body = MsgBody(commentNotFoundErr)

\* the comments POSTs have created for an instance that the store no longer
\* holds: the ones a DELETE answered 200 has removed
Deleted(d, kind, key) ==
    {c[3] : c \in {x \in created : x[1] = kind /\ x[2] = key}}
        \ StoredIds(d, kind, key)

\* C30: once a DELETE of a comment has been answered 200 the comment is
\* not stored, and fetching it fails, in every later state, whatever PATCH
\* requests for it are served concurrently: an update never creates it again.
C30_DeletedStaysDeleted ==
    [][/\ (Answers /\ op'.name = "DELETE" /\ res'.code = StatusOK /\ op'.held) =>
             op'.arg[1] \in Deleted(db', op'.kind, op'.key)
       /\ \A kind \in Kinds, key \in RouteKeys :
             \A id \in Deleted(db, kind, key) :
                /\ id \in Deleted(db', kind, key)
                /\ commentableGet(db', kind, key, id).err # NoErr]_vars

\* the requests that name a comment
OnComment == {"GET", "DELETE", "PATCH"}

\* C27: requests are gated in the order type, instance, comment.  A request
\* for a type that is not provisioned is answered 406 with the type's
\* message, whatever its key, and calls nothing; a GET, PATCH, DELETE or list
\* for an absent instance under a provisioned type is answered 404 and calls
\* nothing; a request for a comment the instance does not hold is answered
\* 400; the attachment is called only when the type and (POST apart, where
\* the creator has made it) the instance exist.
C27_GatedTypeInstanceComment ==
    [][Answers =>
       /\ (op'.name # "" /\ ~op'.pre.type) =>
             /\ res'.code = StatusNotAcceptable
             /\ res'.body = MsgBody(Errorf1(commentableTypeNotFoundFmt, op'.kind))
             /\ op'.ops = 0
             /\ db' = db
       /\ (op'.name \in OnComment \cup {"LIST"} /\ op'.pre.type
             /\ ~op'.pre.instance) =>
             /\ res'.code = StatusNotFound
             /\ op'.ops = 0
             /\ db' = db
       /\ (op'.name \in OnComment /\ op'.pre.instance /\ ~op'.pre.record) =>
             /\ res'.code = StatusBadRequest
             /\ db' = db
       /\ op'.ops > 0 =>
             /\ op'.pre.type
             /\ op'.name # "POST" => op'.pre.instance
             /\ exists(db', op'.kind, op'.key)]_vars

\* a DELETE of a comment that an existing instance does not hold was
\* answered 400
C27_Witness ==
    /\ op.name = "DELETE"
    /\ op.pre.instance /\ ~op.pre.record
    /\ StoredIds(db, op.kind, op.key) # {}
    /\ res.code = StatusBadRequest

\* C28: a POST for an absent instance under a provisioned type creates the
\* instance and, its body being valid, stores the comment and is answered
\* 200; GET, list, PATCH and DELETE requests for an absent instance are
\* answered 404 and do not create it.
C28_OnlyPostCreatesInstance ==
    [][Answers =>
       /\ (op'.name = "POST" /\ op'.pre.type /\ ~op'.pre.instance) =>
             /\ exists(db', op'.kind, op'.key)
             /\ ~addInvalid(UnmarshalComment(op'.arg[2], ZeroComment)) =>
                   /\ res'.code = StatusOK
                   /\ \E id \in StoredIds(db', op'.kind, op'.key) :
                         /\ id \notin StoredIds(db, op'.kind, op'.key)
                         /\ res'.body = StoredComments(db', op'.kind, op'.key)[id][2]
       /\ (op'.name \in OnComment \cup {"LIST"} /\ op'.pre.type
             /\ ~op'.pre.instance) =>
             /\ res'.code = StatusNotFound
             /\ ~exists(db', op'.kind, op'.key)]_vars

\* a POST for an instance that was absent was answered 200
C28_Witness ==
    /\ op.name = "POST"
    /\ op.pre.type /\ ~op.pre.instance
    /\ res.code = StatusOK
    /\ StoredIds(db, op.kind, op.key) # {}

\* C31: a POST answered 400, its body not parsing or its text empty, leaves
\* the database as it was: it does not create the instance its path names.
C31_RejectedPostChangesNothing ==
    [][(Answers /\ op'.name = "POST" /\ res'.code = StatusBadRequest) =>
          /\ db' = db
          /\ exists(db', op'.kind, op'.key) = exists(db, op'.kind, op'.key)]_vars

(***************************************************************************)
(* The services over a store whose transactions can fail.  db.Update       *)
(* returns the error of its function or, when the function returned none,  *)
(* the error of the commit (a write to the file that fails); either way    *)
(* the transaction is rolled back.  db.View returns the error of its       *)
(* function or the error of beginning the transaction.  The requests pass  *)
(* the verifier, the creator and the validator on the working store, and   *)
(* the transaction of the handler is the one that fails.                   *)
(***************************************************************************)
\* the error of a transaction that the store could not begin or commit
ErrTx == <<"write error">>

\* db.Update: the error it returns when the commit fails
updateFailed(out) == IF out.err # NoErr THEN out.err ELSE ErrTx

\* commentable.save(c) when the commit of its transaction fails
commentableSaveFailed(d, kind, key, cp) ==
    IF cp = NilPtr THEN [db |-> d, c |-> NilPtr, err |-> ErrNilComment]
    ELSE LET out == commentableSaveTx(d, kind, key, Deref(cp))
         IN [db |-> d,
             c |-> saveReturned(cp, updateFailed(out)),
             err |-> updateFailed(out)]

\* commentable.add(c) when the commit of its transaction fails
commentableAddFailed(d, g, kind, key, cp) ==
    IF addRejects(cp)
    THEN [db |-> d, guid |-> g, c |-> NilPtr, err |-> ErrNilComment]
    ELSE LET n == New(g)
             s == commentableSaveFailed(d, kind, key, Ptr(addID(Deref(cp), n.id)))
         IN [db |-> s.db, guid |-> n.guid, c |-> s.c, err |-> s.err]

\* rateable.save(rt) when the commit of its transaction fails: newRating is
\* the one the function assigned
saveFailed(d, kind, key, rt) ==
    LET out == saveTx(d, kind, key, rt)
    IN [db |-> d, rt |-> out.newRating, err |-> updateFailed(out)]

\* commentable.list() when its transaction cannot begin: the function has
\* not run and comments is the nil slice
commentableListFailed(d, kind, key) ==
    [db |-> d, list |-> NilPtr, err |-> ErrTx]

\* the request answered last, with the error of the call that failed
FaultRes(r, err) ==
    [NoRes EXCEPT !.code = r.code, !.body = r.body, !.panicked = r.panicked,
                  !.err = err]

\* POST /{type}/{key}/comments with a body that is accepted, the commit of
\* add failing.  The creator has committed the instance before.
FailedAdd(kind, key, payload) ==
    LET co == UnmarshalComment(payload, ZeroComment)
        en == ensure(db, kind, key)
        a == commentableAddFailed(en.db, guid, kind, key, Ptr(co.c))
        r == handleAddRespond(a)
    IN /\ verify(db, kind) /\ en.err = NoErr /\ exists(en.db, kind, key)
       /\ ~addInvalid(co)
       /\ a.guid <= MaxCreates
       /\ db' = r.db
       /\ guid' = r.guid
       /\ op' = CommentOp("POST", kind, key, payload, "")
       /\ res' = FaultRes(r, a.err)
       /\ UNCHANGED <<pc, req, writer, txroot, resp, created, upd>>

\* PATCH /{type}/{key}/comments/{commentKey} of a stored comment with a body
\* that is accepted, the commit of save failing
FailedUpdate(kind, key, cKey, payload) ==
    LET rd == handleUpdateRead(db, kind, key, cKey, payload)
    IN /\ upd = NoUpd
       /\ ~rd.done
       /\ LET s == commentableSaveFailed(db, kind, key, rd.cmt)
              r == handleUpdateRespond(s)
          IN /\ db' = r.db
             /\ op' = CommentOp("PATCH", kind, key, <<cKey, payload>>, cKey)
             /\ res' = FaultRes(r, s.err)
       /\ UNCHANGED <<pc, req, writer, txroot, resp, guid, created, upd>>

\* PUT /{type}/{key}/ratings with a body that parses, the commit of save
\* failing
FailedPut(kind, key, payload) ==
    LET dec == Unmarshal(payload, ZeroRating)
        s == saveFailed(db, kind, key, dec.v)
        r == handlePutRespond(s)
    IN /\ verify(db, kind)
       /\ dec.err = NoErr
       /\ db' = r.db
       /\ op' = Op("PUT", kind, key, payload)
       /\ res' = FaultRes(r, s.err)
       /\ UNCHANGED <<pc, req, writer, txroot, resp, guid, created, upd>>

\* GET /{type}/{key}/comments, the transaction of list failing to begin
FailedList(kind, key) ==
    LET l == commentableListFailed(db, kind, key)
        r == handleListRespond(l)
    IN /\ verify(db, kind) /\ exists(db, kind, key)
       /\ op' = CommentOp("LIST", kind, key, <<>>, "")
       /\ res' = [NoRes EXCEPT !.code = r.code, !.body = r.body, !.err = l.err]
       /\ UNCHANGED <<db, pc, req, writer, txroot, resp, guid, created, upd>>

\* the requests of the two services, each with its transaction committing or
\* failing
NextFault ==
    \/ \E kind \in Kinds, key \in RouteKeys, payload \in UpdatePayloads :
          AddRequest(kind, key, payload)
    \/ \E kind \in Kinds, key \in RouteKeys, payload \in Payloads :
          PutRequest(kind, key, payload)
    \/ \E kind \in Kinds, key \in RouteKeys, payload \in UpdatePayloads :
          FailedAdd(kind, key, payload)
    \/ \E kind \in Kinds, key \in RouteKeys :
          \E cKey \in NamedIds(kind, key) :
             \E payload \in UpdatePayloads : FailedUpdate(kind, key, cKey, payload)
    \/ \E kind \in Kinds, key \in RouteKeys, payload \in Payloads :
          FailedPut(kind, key, payload)
    \/ \E kind \in Kinds, key \in RouteKeys : FailedList(kind, key)

SpecFault == Init /\ [][NextFault]_vars

\* C32: a request whose attachment write failed is answered 500 with the
\* save-error message of its service, and its handler returns without
\* dereferencing the nil result of the write.
C32_FailedWriteAnswered ==
    (res.err # NoErr /\ op.name \in {"POST", "PATCH", "PUT"}) =>
        /\ res.code = StatusInternalServerError
        /\ res.body = MsgBody(IF op.name = "PUT" THEN ratingSaveErr
                              ELSE commentSaveErr)
        /\ ~res.panicked

\* C34: a request for the comments of an instance gets one response; when
\* list fails the body written is the 500 message alone.
C34_OneResponse ==
    (op.name = "LIST" /\ res.err # NoErr) =>
        /\ res.code = StatusInternalServerError
        /\ res.body = MsgBody(Errorf1("error fetching comments: %v", res.err))

\* the resource types and instances the requests name
AllKinds == Kinds \cup {commentables[i] : i \in 1..Len(commentables)}

\* C33: no request deletes a type container or an instance container: a
\* type that verify finds and an instance that exists finds are found after
\* every step, so the second call of a DELETE or PATCH, which runs after the
\* verifier and the validator passed and after other requests were served,
\* does not fail.
C33_ContainersAreNeverDeleted ==
    [][/\ \A kind \in AllKinds :
             /\ verify(db, kind) => verify(db', kind)
             /\ \A key \in ServeKeys :
                   exists(db, kind, key) => exists(db', kind, key)
       /\ (Answers /\ op'.ops = 2) =>
             /\ res'.code # StatusInternalServerError
             /\ verify(db', op'.kind) /\ exists(db', op'.kind, op'.key)]_vars

\* a DELETE removed the comment it named, other requests having been served
\* since the validator passed, and the instance is still there
C33_Witness ==
    /\ op.name = "DELETE" /\ op.ops = 2 /\ res.code = StatusOK
    /\ op.pre.type /\ op.pre.instance /\ op.pre.record
    /\ op.arg[1] \notin StoredIds(db, op.kind, op.key)
    /\ StoredIds(db, op.kind, op.key) # {}
    /\ verify(db, op.kind) /\ exists(db, op.kind, op.key)

(***************************************************************************)
(* rating.add and rating.ensureNotNegative on their own: a rating is       *)
(* chosen, and add, ensureNotNegative or the two composed as in            *)
(* rateable.save are applied to the rating at hand, which res.rt holds.    *)
(***************************************************************************)
\* the ratings of Test_rating_add and Test_rating_ensureNotNegative (the
\* receiver and the argument with negative counters), and uniform ones
CalcRatings == {Rating(1, 2, 3, 4, 5), Rating(-2, 1, 10, -6, 0), Uniform(-1)}
\* the ratings added to the one at hand
CalcDeltas == {Rating(-2, 1, 10, -6, 0), Uniform(1), Uniform(-1)}

\* every counter is within the magnitude the calculations are kept to
InCalc(r) == \A f \in FieldSet : -MaxCalc <= r[f] /\ r[f] <= MaxCalc

Calc(name, arg, r) ==
    /\ InCalc(r)
    /\ op' = [NoOp EXCEPT !.name = name, !.arg = arg]
    /\ res' = [NoRes EXCEPT !.rt = Ptr(r)]
    /\ UNCHANGED <<db, pc, req, writer, txroot, resp, guid, created, upd>>

InitCalc ==
    /\ db = EmptyBucket
    /\ op = NoOp
    /\ res \in {[NoRes EXCEPT !.rt = Ptr(r)] : r \in CalcRatings}
    /\ Idle
    /\ Fresh

\* r.add(rt)
CalcAdd(rt) == Calc("add", <<Deref(res.rt), rt>>, add(Deref(res.rt), rt))
\* r.ensureNotNegative()
CalcEnsureNotNegative ==
    Calc("ensureNotNegative", <<Deref(res.rt)>>, ensureNotNegative(Deref(res.rt)))
\* r.add(rt).ensureNotNegative()
CalcMerge(rt) == Calc("merge", <<Deref(res.rt), rt>>, mergeRating(Deref(res.rt), rt))

NextCalc ==
    \/ \E rt \in CalcDeltas : CalcAdd(rt)
    \/ CalcEnsureNotNegative
    \/ \E rt \in CalcDeltas : CalcMerge(rt)

SpecCalc == InitCalc /\ [][NextCalc]_vars

\* C35: add is the addition of the counters one by one, without a clamp;
\* ensureNotNegative sets the negative counters to 0, leaves the others and
\* changes nothing when applied again; add followed by ensureNotNegative
\* takes {1,2,3,4,5} and {-2,1,10,-6,0} to {0,3,13,0,5}.
C35_AddThenEnsureNotNegative ==
    /\ op.name = "add" =>
          \A f \in FieldSet : Deref(res.rt)[f] = op.arg[1][f] + op.arg[2][f]
    /\ op.name = "ensureNotNegative" =>
          /\ \A f \in FieldSet :
                Deref(res.rt)[f] = IF op.arg[1][f] < 0 THEN 0 ELSE op.arg[1][f]
          /\ ensureNotNegative(Deref(res.rt)) = Deref(res.rt)
    /\ (op.name = "merge"
          /\ op.arg = <<Rating(1, 2, 3, 4, 5), Rating(-2, 1, 10, -6, 0)>>) =>
          Deref(res.rt) = Rating(0, 3, 13, 0, 5)

\* {1,2,3,4,5} was merged with {-2,1,10,-6,0}
C35_Witness ==
    /\ op.name = "merge"
    /\ op.arg = <<Rating(1, 2, 3, 4, 5), Rating(-2, 1, 10, -6, 0)>>
    /\ Deref(res.rt).FiveStars = 0 /\ Deref(res.rt).TwoStars = 0
    /\ Deref(res.rt).ThreeStars = 13

\* add left a negative counter, which it did not clamp
C35_WitnessAdd ==
    /\ op.name = "add"
    /\ \E f \in FieldSet : Deref(res.rt)[f] < 0

(***************************************************************************)
(* The rating attachment with counters up to the largest int: the merges   *)
(* are not kept to small counters, and a delta can be as large as an int.  *)
(***************************************************************************)
\* the ratings merged: one more of each star, and the largest int of each
WideDeltas == {Uniform(1), Uniform(MaxInt)}

\* rateable.save(rt), whatever the counters stored
SaveWide(kind, key, rt) ==
    LET s == save(db, kind, key, rt)
    IN /\ db' = s.db
       /\ op' = Op("save", kind, key, rt)
       /\ res' = [NoRes EXCEPT !.rt = s.rt, !.err = s.err]
       /\ UNCHANGED <<pc, req, writer, txroot, resp, guid, created, upd>>

NextWide ==
    \/ \E kind \in Kinds, key \in RouteKeys, rt \in WideDeltas :
          SaveWide(kind, key, rt)
    \/ \E kind \in Kinds, key \in RouteKeys : GetRating(kind, key)

SpecWide == Init /\ [][NextWide]_vars

\* C36: a merge of a delta whose five counters are not negative leaves no
\* stored counter smaller than it was.
C36_MergeOfNonNegativeNeverDecreases ==
    [][(op'.name = "save" /\ res'.err = NoErr
          /\ \A f \in FieldSet : op'.arg[f] >= 0) =>
         \A f \in FieldSet :
            AggregateOf(RecordOf(db', op'.kind, op'.key))[f]
               >= AggregateOf(RecordOf(db, op'.kind, op'.key))[f]]_vars

(***************************************************************************)
(* The two attachments over several instances: ratings are merged and      *)
(* comments are created, replaced and removed on instances of the same     *)
(* type and of another type.  The first merge creates the instance.        *)
(***************************************************************************)
\* the instances: two of one type and one of another
FramePairs == {<<"books", "b1">>, <<"books", "b2">>, <<"authors", "b1">>}
\* the instances that are commented: the two with the same key
FrameCommented == {t \in FramePairs : t[2] = "b1"}
\* the ratings merged: the largest count the model stores, and its opposite
FrameDeltas == {Uniform(MaxCount), Uniform(-MaxCount)}
\* the comment created, and the entities that replace the stored comments:
\* each is written again under its identifier
FrameComment == Ptr(Comment("", "foo"))
FrameEntities(kind, key) ==
    {Ptr(Comment(id, Deref(FrameComment).Value)) : id \in StoredIds(db, kind, key)}

NextFrame ==
    \/ \E t \in FramePairs, rt \in FrameDeltas : Save(t[1], t[2], rt)
    \/ \E t \in FrameCommented : CommentAdd(t[1], t[2], FrameComment)
    \/ \E t \in FrameCommented : \E cp \in FrameEntities(t[1], t[2]) :
          CommentSave(t[1], t[2], cp)
    \/ \E t \in FrameCommented : \E cKey \in StoredIds(db, t[1], t[2]) :
          CommentRemove(t[1], t[2], cKey)

SpecFrame == Init /\ [][NextFrame]_vars

\* what is attached to an instance: its bucket, with the rating record and
\* the comments bucket, or nothing when the instance does not exist
AttachedTo(d, kind, key) ==
    IF HasInstance(d, kind, key)
    THEN <<SubBucket(SubBucket(d, kind), key)>> ELSE <<>>

\* C37: a merge, create, replace or remove on one instance changes nothing
\* of what is attached to any other instance, of the same type or of another.
C37_OtherInstancesUntouched ==
    [][\A t \in FramePairs :
          t # <<op'.kind, op'.key>> =>
             AttachedTo(db', t[1], t[2]) = AttachedTo(db, t[1], t[2])]_vars

\* a comment of an instance was removed while another instance of the same
\* type holds a rating, and an instance of another type a rating and a comment
C37_Witness ==
    /\ op.name = "comment.remove" /\ res.err = NoErr
    /\ op.kind = "books" /\ op.key = "b1" /\ op.pre.record
    /\ StoredIds(db, "authors", "b1") # {}
    /\ RecordOf(db, "books", "b2") # NoData
    /\ RecordOf(db, "authors", "b1") # NoData

(***************************************************************************)
(* The comment service with the read-write transactions of bolt spelled    *)
(* out.  Each goroutine serves one request.  db.View never waits.          *)
(* db.Update waits for the writer lock, runs its function and releases the *)
(* lock when it commits or rolls back.  Which goroutine takes a request    *)
(* makes no difference, so it is the first one that is idle.  A POST makes *)
(* two read-write                                                          *)
(* transactions one after the other (the creator's ensure, then add), a    *)
(* PATCH and a DELETE a read-only one (get) and then a read-write one      *)
(* (save, remove).  The lock is a mutex that is granted to each waiter     *)
(* eventually, and a goroutine that can run does run: strong fairness for  *)
(* taking the lock, weak fairness for the other steps of a request.        *)
(***************************************************************************)
\* DB.Update that returns with its transaction still open
dbUpdateHolds(p) == p
\* DB.Update: the writer lock once the transaction is committed or rolled back
dbUpdateUnlock(p) == NoProc

\* the requests: a POST, and a PATCH and a DELETE of the first comment
LiveMethods == {"POST", "PATCH", "DELETE"}
LivePayload(method) ==
    IF method = "POST" THEN << <<"value", Quote("foo")>> >>
    ELSE IF method = "PATCH" THEN << <<"value", Quote("bar")>> >>
    ELSE <<>>
NoLive ==
    [method |-> "", kind |-> "", key |-> "", cKey |-> "", payload |-> <<>>,
     cmt |-> NilPtr, contended |-> FALSE]

InitLive ==
    /\ db = setup(EmptyBucket, commentables).db
    /\ op = NoOp
    /\ res = NoRes
    /\ Fresh
    /\ pc = [p \in Procs |-> "idle"]
    /\ req = [p \in Procs |-> NoLive]
    /\ txroot = [p \in Procs |-> EmptyBucket]
    /\ resp = [p \in Procs |-> NoResp]
    /\ writer = NoProc

\* the response is written and the request is over
Finish(p, code, body) ==
    /\ resp' = [resp EXCEPT ![p] = [NoResp EXCEPT !.code = code, !.body = body]]
    /\ pc' = [pc EXCEPT ![p] = "done"]

\* the request arrives: the verifier and, except for a POST, the validator
ArriveComment(p, method, kind, key) ==
    /\ pc[p] = "idle"
    /\ req' = [req EXCEPT ![p] =
                  [NoLive EXCEPT !.method = method, !.kind = kind, !.key = key,
                                 !.cKey = IF method = "POST" THEN "" ELSE IdOf(1),
                                 !.payload = LivePayload(method)]]
    /\ IF ~verify(db, kind)
       THEN Finish(p, StatusNotAcceptable,
                   MsgBody(Errorf1(commentableTypeNotFoundFmt, kind)))
       ELSE IF method = "POST"
       THEN pc' = [pc EXCEPT ![p] = "creator"] /\ UNCHANGED resp
       ELSE IF ~exists(db, kind, key)
       THEN Finish(p, StatusNotFound,
                   MsgBody(Errorf2(commentableNotFoundFmt, kind, key)))
       ELSE pc' = [pc EXCEPT ![p] = "handler"] /\ UNCHANGED resp
    /\ UNCHANGED <<db, op, res, writer, txroot, guid, created, upd>>

\* db.Update of ensure, add, save or remove takes the writer lock
BeginUpdate(p) ==
    /\ pc[p] \in {"creator", "write"}
    /\ WriterLockFree(writer)
    /\ writer' = p
    /\ txroot' = [txroot EXCEPT ![p] = db]
    /\ req' = [req EXCEPT ![p].contended =
                  \E q \in Procs \ {p} : pc[q] \in {"creator", "write"}]
    /\ pc' = [pc EXCEPT ![p] = IF pc[p] = "creator" THEN "ensuring" ELSE "writing"]
    /\ UNCHANGED <<db, op, res, resp, guid, created, upd>>

\* the creator: ensure's transaction ends; then the validator
CommitEnsure(p) ==
    /\ pc[p] = "ensuring"
    /\ \E en \in {ensure(txroot[p], req[p].kind, req[p].key)} :
          /\ db' = en.db
          /\ IF en.err # NoErr
             THEN Finish(p, StatusNotAcceptable, MsgBody(commentableSaveErr))
             ELSE IF ~exists(en.db, req[p].kind, req[p].key)
             THEN Finish(p, StatusNotFound,
                         MsgBody(Errorf2(commentableNotFoundFmt,
                                         req[p].kind, req[p].key)))
             ELSE pc' = [pc EXCEPT ![p] = "handler"] /\ UNCHANGED resp
    /\ writer' = dbUpdateUnlock(p)
    /\ UNCHANGED <<op, res, req, txroot, guid, created, upd>>

\* the handler up to its read-write transaction: handleAdd decodes the body,
\* handleUpdate and handleRemove get the comment
RunHandler(p) ==
    /\ pc[p] = "handler"
    /\ IF req[p].method = "POST"
       THEN \E co \in {UnmarshalComment(req[p].payload, ZeroComment)} :
               IF addInvalid(co)
               THEN /\ Finish(p, StatusBadRequest, MsgBody(commentIsInvalid))
                    /\ UNCHANGED req
               ELSE /\ req' = [req EXCEPT ![p].cmt = Ptr(co.c)]
                    /\ pc' = [pc EXCEPT ![p] = "write"]
                    /\ UNCHANGED resp
       ELSE \E r \in {IF req[p].method = "PATCH"
                       THEN handleUpdateRead(db, req[p].kind, req[p].key,
                                             req[p].cKey, req[p].payload)
                       ELSE handleRemoveRead(db, req[p].kind, req[p].key,
                                             req[p].cKey)} :
               IF r.done
               THEN Finish(p, r.code, r.body) /\ UNCHANGED req
               ELSE /\ req' = [req EXCEPT ![p].cmt = r.cmt]
                    /\ pc' = [pc EXCEPT ![p] = "write"]
                    /\ UNCHANGED resp
    /\ UNCHANGED <<db, op, res, writer, txroot, guid, created, upd>>

\* the transaction of add, save or remove ends and the handler responds
CommitWrite(p) ==
    /\ pc[p] = "writing"
    /\ IF req[p].method = "POST"
       THEN \E r \in {handleAddRespond(
                          commentableAdd(txroot[p], guid, req[p].kind,
                                         req[p].key, req[p].cmt))} :
               db' = r.db /\ guid' = r.guid /\ Finish(p, r.code, r.body)
       ELSE \E w \in {IF req[p].method = "PATCH"
                       THEN handleUpdateWrite(txroot[p], req[p].kind,
                                              req[p].key, req[p].cmt)
                       ELSE handleRemoveWrite(txroot[p], req[p].kind,
                                              req[p].key, req[p].cmt)} :
               db' = w.db /\ Finish(p, w.code, w.body) /\ UNCHANGED guid
    /\ writer' = dbUpdateUnlock(p)
    /\ UNCHANGED <<op, res, req, txroot, created, upd>>

NextLive ==
    \/ \E p \in Procs, method \in LiveMethods, key \in RouteKeys :
          /\ FirstIdle(p)
          /\ ArriveComment(p, method, commentables[2], key)
    \/ \E p \in Procs : BeginUpdate(p)
    \/ \E p \in Procs : CommitEnsure(p)
    \/ \E p \in Procs : RunHandler(p)
    \/ \E p \in Procs : CommitWrite(p)

SpecLive ==
    /\ InitLive /\ [][NextLive]_vars
    /\ \A p \in Procs :
          /\ SF_vars(BeginUpdate(p))
          /\ WF_vars(CommitEnsure(p) \/ RunHandler(p) \/ CommitWrite(p))

\* C38: every request that has arrived is answered: the goroutine that holds
\* the writer lock is inside a transaction it will end, none waits for a
\* lock it holds itself, and each request reaches its response.
C38_EveryRequestCompletes ==
    /\ [](writer # NoProc => pc[writer] \in {"ensuring", "writing"})
    /\ \A p \in Procs : (pc[p] # "idle") ~> (pc[p] = "done")

\* a POST that took the writer lock while another request waited for it was
\* answered 200, after the two read-write transactions it makes
C38_Witness ==
    \E p \in Procs :
       /\ pc[p] = "done" /\ req[p].method = "POST" /\ req[p].contended
       /\ resp[p].code = StatusOK
       /\ writer = NoProc
====
